---- MODULE Spec2Model ----
(***************************************************************************)
(* Model of the temp-mail bot's polling and notification engine:           *)
(*   db.py            the Session Store and the Seen Ledger (SQLite)       *)
(*   sse_listener.py  the Poller/Scheduler and its pool of fetch tasks     *)
(*   sender.py/app.py the Dispatch Queue and its single consumer           *)
(*   handlers.py      the user-triggered manual refresh                    *)
(*   rate_limiter.py  the sliding-window rate limiter                      *)
(*   mail_service.py  the client of the mail provider                      *)
(*   message_parser.py the links and codes drawn from a message            *)
(*                                                                         *)
(* Five groups of variables (store, direct ledger callers, poller, rate    *)
(* limiter, single operations), and one specification per scenario:        *)
(*   SpecLedger    callers issuing claim/unclaim on the ledger directly    *)
(*   SpecPoller    scheduler + fetch tasks + dispatch queue + sender       *)
(*   FairSpecCycle scheduler + fetch tasks, every thread kept running      *)
(*   Spec          SpecPoller plus the manual-refresh handler              *)
(*   SpecRateSeq   one thread calling is_allowed                           *)
(*   SpecRate      several threads calling is_allowed                      *)
(*   SpecRateSweep one thread calling is_allowed, a second user's key      *)
(*   SpecInterval  the end of a cycle: the adaptive interval               *)
(*   SpecClient    get_messages / get_message_detail through the retries   *)
(*   FairSpecCreate create_account, every step of it taken in the end      *)
(*   SpecNotFound  scheduler + fetch tasks, missing details observed       *)
(*   SpecExpiry    scheduler + fetch tasks, the clock moving in a cycle    *)
(*   SpecStore     the handlers creating and deleting sessions             *)
(*   SpecPool      one cycle's pool with up to MaxSessions sessions        *)
(*   SpecParse     parse_message: the links of one message                 *)
(*   SpecCodes     extract_codes on one text                               *)
(*   SpecCleanup   scheduler + fetch tasks around a cleanup cycle          *)
(*   FairSpecSender the dispatch queue, its producers and its consumer     *)
(***************************************************************************)
EXTENDS Integers, Sequences, FiniteSets, TLC

\* ------------------------------------------------------------------ bounds
NCallers == 3      \* concurrent direct callers of the ledger (SpecLedger)
MaxOps == 4        \* ledger statements executed in one SpecLedger run
MaxCycles == 2     \* polling cycles started in one run of the poller
MaxRefresh == 1    \* manual refreshes that reach the mailbox in one run
NThreads == 2      \* threads calling is_allowed concurrently (SpecRate)
MaxTicks == 2      \* advances of the monotonic clock in one rate-limiter run
MaxExtraCalls == 2 \* is_allowed calls beyond the key's limit in a one-thread run
MaxCalls == 5      \* is_allowed calls in a run with several threads
MaxOtherCalls == 2 \* timestamps a second user's calls may leave in its bucket
MaxConflicts == 3  \* address conflicts counted in one account creation
MaxDrift == 2      \* seconds the clock moves during the steps of one run
MaxSessions == 11  \* active sessions in a cycle whose pool is run on its own
MaxVerifications == 2 \* entries of a detail's "verifications" list
MaxTokens == 4     \* words of a text given to extract_codes
MaxPuts == 4       \* items put on the dispatch queue in a run of the consumer
MaxCodes == 11     \* distinct digit codes in a text made of codes only

\* ------------------------------------------------------- program constants
SESSION_MAX_AGE_SECONDS == 3600
POLL_INTERVAL == 15
MAX_CONCURRENT_POLLS == 10
CLEANUP_EVERY_N_CYCLES == 10
RETENTION_DAYS == 7
\* timedelta(days=d), in seconds
timedelta_days(d) == d * 86400

\* ------------------------------------------------------------- the universe
MsgIds == {"m1", "m2", "m3"}
LedgerIds == {"m1", "m2"}    \* the ids the direct callers use
Callers == 1..NCallers
Users == {"u1", "u2"}
NoId == "none"               \* a list entry without an "id" (msg.get("id") is None)

\* What the provider lists for a user's mailbox (hydra:member of GET /messages).
\* Message ids are the provider's, unique over all mailboxes.
Mailbox(u) == IF u = "u1" THEN <<"m1", "m2">> ELSE <<NoId, "m3">>
Owner(id) == IF id = "m3" THEN "u2" ELSE "u1"

\* The cycle counter at the start of a run: a fresh process (0), or one that
\* has run eight cycles over empty mailboxes (so that the tenth cycle, the
\* cleanup cycle, is within MaxCycles).
StartCycles == {0, CLEANUP_EVERY_N_CYCLES - 2}

\* Wall-clock time that may pass, beyond the sleep interval, between two
\* cycles: none, more than a session's life, more than the retention window.
Stalls == {0, SESSION_MAX_AGE_SECONDS, timedelta_days(RETENTION_DAYS)}

VARIABLES
  \* ---- store (db.py)
  now,            \* wall clock, seconds (datetime.now(timezone.utc))
  sessions,       \* table sessions: set of rows [user_id, created_at]
  messages_seen,  \* table messages_seen: set of rows [message_id, seen_at]
  \* ---- direct ledger callers (SpecLedger)
  call,           \* call[c]: the call caller c is in or has finished
  hist,           \* hist[id]: the statements executed on id, in commit order
  \* ---- poller (sse_listener.py)
  cycle,          \* worker(): cycle
  cycle0,         \* its value when the run started (never changes)
  schedPc,        \* where the scheduling thread is
  active,         \* worker(): the users of `active`
  interval,       \* the argument of the pending time.sleep
  task,           \* task[u]: the future of _check_new_messages for u
  \* ---- dispatch queue and sender (app.py, sender.py)
  msg_queue,      \* message_queue: sequence of items [user_id, id]
  sending,        \* the sender thread's item [user_id, id] and its state:
                  \* "idle" none yet, "taken", then "sent" or "failed";
                  \* posts: the requests made to the chat API for the item
  \* ---- manual refresh (handlers.py callback_refresh)
  rf,             \* the refresh handler in flight: [pc, user, idx], and
                  \* n, the refreshes that have reached the mailbox so far
  \* ---- observation
  notified,       \* notified[id]: notifications the user got for id (0, 1, 2+)
  failures,       \* failures[id]: processing steps for id that failed (0, 1, 2+)
  \* ---- rate limiter (rate_limiter.py)
  mono,           \* time.monotonic(), seconds
  last_cleanup,   \* _LAST_CLEANUP
  buckets,        \* _buckets: key -> list of timestamps (only the keys present)
  lock,           \* _lock: the thread holding it, or NoThread
  thr,            \* thr[t]: where thread t is in is_allowed, and its `now`
  rkey,           \* the [user_id, action] the run's calls are made with
  rticks,         \* clock advances so far
  rbudget,        \* the calls the run may make (never changes)
  rlog,           \* the calls that returned, in the order they took the lock:
                  \* [t: the call's `now`, ret: what it returned]
  \* ---- single operations run on their own
  ai,             \* a cycle end of the poller with n active sessions and a
                  \* configured POLL_INTERVAL base: [base, n, pc]
  rq,             \* the _retry_request call in progress: [pc, attempt, resp, log]
  cl,             \* the provider-client operation in progress:
                  \* [fn, pc, result, conflicts]
  nf,             \* the ids whose detail the provider reported missing (404)
                  \* to a task of the poller, where that is observed
  elapsed,        \* seconds the wall clock has moved while a step was under
                  \* way, where that is observed
  pool,           \* a cycle's ThreadPoolExecutor on its own: pool[i] is the
                  \* state of the task submitted for the i-th active session
  last_op,        \* the last save_session or delete_session made by a
                  \* handler: its arguments, its clock, and whether the user
                  \* had a row before
  px,             \* a call of the message parser: its input and, once it has
                  \* returned (pc = "out"), its output
  dq              \* the dispatch queue observed: the items put, the items the
                  \* consumer got and the deliveries it attempted, in order

storeVars == <<now, sessions, messages_seen>>
ledgerVars == <<call, hist>>
schedVars == <<cycle, cycle0, schedPc, active, interval>>
queueVars == <<msg_queue, sending>>
obsVars == <<notified, failures>>
pollVars == <<schedVars, task, queueVars, rf, obsVars>>
rateVars == <<mono, last_cleanup, buckets, lock, thr, rkey, rticks, rbudget, rlog>>
moreVars == <<nf, elapsed, pool, last_op, px, dq>>
extVars == <<ai, rq, cl, moreVars>>

\* ------------------------------------------------- Seen Ledger (src/db.py)
\* A row of messages_seen; message_id is the PRIMARY KEY.
SeenRow(id, at) == [message_id |-> id, seen_at |-> at]

\* SELECT 1 FROM messages_seen WHERE message_id = ?   (is_message_seen)
is_message_seen(t, id) == \E r \in t : r.message_id = id

\* INSERT OR IGNORE INTO messages_seen (message_id, seen_at) VALUES (?, ?)
\* the table after the statement: a row with that key is left as it is.
InsertOrIgnore(t, id, at) ==
  IF \E r \in t : r.message_id = id THEN t ELSE t \cup {SeenRow(id, at)}

\* cur.rowcount of that statement: 1 when the row was inserted, 0 when ignored.
InsertRowcountAlwaysOne(t, id) == 1
InsertRowcount(t, id) == IF \E r \in t : r.message_id = id THEN 0 ELSE 1

\* claim_message_seen: return cur.rowcount == 1
claim_ret_any_rowcount(t, id) == InsertRowcount(t, id) >= 0
claim_message_seen_ret(t, id) == InsertRowcount(t, id) = 1

\* DELETE FROM messages_seen WHERE message_id = ?   (unmark_message_seen)
unmark_keeps_row(t, id) == t
unmark_every_row(t, id) == {}
unmark_message_seen(t, id) == {r \in t : r.message_id # id}

SeenIds(t) == {r.message_id : r \in t}

\* ----------------------------------------------- Session Store (src/db.py)
\* A row of sessions; user_id is the PRIMARY KEY. email, token and account_id
\* are fixed by the user here: the token of u's session opens Mailbox(u).
SessionRow(u, at) == [user_id |-> u, created_at |-> at]

\* SELECT ... FROM sessions   (get_all_sessions)
get_all_sessions(t) == t

\* DELETE FROM sessions WHERE created_at < cutoff,
\* cutoff = now - SESSION_MAX_AGE_SECONDS   (cleanup_expired_sessions)
cleanup_expired_sessions_at_limit(t, clock) ==
  {r \in t : ~(r.created_at <= clock - SESSION_MAX_AGE_SECONDS)}
cleanup_expired_sessions(t, clock) ==
  {r \in t : ~(r.created_at < clock - SESSION_MAX_AGE_SECONDS)}

\* DELETE FROM messages_seen WHERE seen_at != '' AND seen_at < cutoff,
\* cutoff = now - 7 days   (cleanup_old_messages). Every row written by this
\* program carries a timestamp, so seen_at != '' holds of all of them.
cleanup_old_messages_days_as_seconds(t, clock) ==
  {r \in t : ~(r.seen_at < clock - RETENTION_DAYS)}
cleanup_old_messages(t, clock) ==
  {r \in t : ~(r.seen_at < clock - timedelta_days(RETENTION_DAYS))}

\* A row of sessions with all its columns (init_db, lines 27-33).
FullRow(u, email, token, account_id, at) ==
  [user_id |-> u, email |-> email, token |-> token, account_id |-> account_id,
   created_at |-> at]

\* INSERT OR REPLACE INTO sessions (...) VALUES (...): user_id is the primary
\* key, so a row of the same user_id is deleted and the new row inserted
\* (save_session); created_at is the clock of the call
save_session_or_ignore(t, u, email, token, account_id, clock) ==
  IF \E r \in t : r.user_id = u THEN t
  ELSE t \cup {FullRow(u, email, token, account_id, clock)}
save_session(t, u, email, token, account_id, clock) ==
  {r \in t : r.user_id # u} \cup {FullRow(u, email, token, account_id, clock)}

\* DELETE FROM sessions WHERE user_id = ?   (delete_session)
delete_session(t, u) == {r \in t : r.user_id # u}

\* what create_account() may return: (email, token, account_id)
Accounts ==
  {[email |-> "a@d", token |-> "tok_a", account_id |-> "id_a"],
   [email |-> "b@d", token |-> "tok_b", account_id |-> "id_b"]}

NoOp == [op |-> "none", user_id |-> "none", email |-> "none", token |-> "none",
         account_id |-> "none", at |-> 0, had |-> FALSE]

\* callback_create_mail (handlers.py 149-150): the account just created is
\* saved as the user's session
SaveSession(u, a) ==
  /\ sessions' = save_session(sessions, u, a.email, a.token, a.account_id, now)
  /\ last_op' = [op |-> "save", user_id |-> u, email |-> a.email, token |-> a.token,
                 account_id |-> a.account_id, at |-> now,
                 had |-> \E r \in sessions : r.user_id = u]
  /\ UNCHANGED <<now, messages_seen, ledgerVars, pollVars, rateVars, dq, ai, rq, cl, px, nf,
                 elapsed, pool>>

\* the delete handler (handlers.py 289-300): get_session, and when there is a
\* session, delete_session
DeleteSession(u) ==
  /\ \E r \in sessions : r.user_id = u
  /\ sessions' = delete_session(sessions, u)
  /\ last_op' = [NoOp EXCEPT !.op = "delete", !.user_id = u, !.at = now, !.had = TRUE]
  /\ UNCHANGED <<now, messages_seen, ledgerVars, pollVars, rateVars, dq, ai, rq, cl, px, nf,
                 elapsed, pool>>

\* the wall clock moves between two handlers
TimePasses ==
  /\ elapsed < MaxDrift
  /\ now' = now + 1
  /\ elapsed' = elapsed + 1
  /\ UNCHANGED <<sessions, messages_seen, ledgerVars, pollVars, rateVars, dq, ai, rq, cl, px, nf,
                 pool, last_op>>

\* --------------------------------------------- direct callers of the ledger
\* Each caller thread issues claim_message_seen / unmark_message_seen calls.
\* A call opens its own connection (get_connection), runs its one statement,
\* which SQLite executes atomically under the database write lock, commits and
\* returns. hist[id] records the statements on id in the order they executed;
\* call[c].at is the number of statements that had executed on the id when the
\* call was issued (calls issued at the same `at` overlap in time).
NoCall == [pc |-> "idle", op |-> "none", id |-> "none", at |-> 0, ret |-> FALSE]

HistTotal == Len(hist["m1"]) + Len(hist["m2"])
InFlight == Cardinality({c \in Callers : call[c].pc = "stmt"})

InitLedgerCallers ==
  /\ call = [c \in Callers |-> NoCall]
  /\ hist = [id \in LedgerIds |-> << >>]

\* the caller enters claim_message_seen(id): connection opened, nothing run yet
CallClaim(c, id) ==
  /\ call[c].pc # "stmt"
  /\ HistTotal + InFlight < MaxOps
  /\ call' = [call EXCEPT ![c] = [pc |-> "stmt", op |-> "claim", id |-> id,
                                  at |-> Len(hist[id]), ret |-> FALSE]]
  /\ UNCHANGED <<hist, storeVars, pollVars, rateVars, extVars>>

\* the caller enters unmark_message_seen(id)
CallUnclaim(c, id) ==
  /\ call[c].pc # "stmt"
  /\ HistTotal + InFlight < MaxOps
  /\ call' = [call EXCEPT ![c] = [pc |-> "stmt", op |-> "unclaim", id |-> id,
                                  at |-> Len(hist[id]), ret |-> FALSE]]
  /\ UNCHANGED <<hist, storeVars, pollVars, rateVars, extVars>>

\* INSERT OR IGNORE + commit of claim_message_seen, and its return value
ExecClaim(c) ==
  /\ call[c].pc = "stmt" /\ call[c].op = "claim"
  /\ LET id == call[c].id
         r == claim_message_seen_ret(messages_seen, id)
     IN /\ messages_seen' = InsertOrIgnore(messages_seen, id, now)
        /\ call' = [call EXCEPT ![c].pc = "done", ![c].ret = r]
        /\ hist' = [hist EXCEPT ![id] = Append(@, [op |-> "claim", ret |-> r])]
  /\ UNCHANGED <<now, sessions, pollVars, rateVars, extVars>>

\* DELETE + commit of unmark_message_seen (returns None)
ExecUnclaim(c) ==
  /\ call[c].pc = "stmt" /\ call[c].op = "unclaim"
  /\ LET id == call[c].id
     IN /\ messages_seen' = unmark_message_seen(messages_seen, id)
        /\ call' = [call EXCEPT ![c].pc = "done"]
        /\ hist' = [hist EXCEPT ![id] = Append(@, [op |-> "unclaim", ret |-> FALSE])]
  /\ UNCHANGED <<now, sessions, pollVars, rateVars, extVars>>

\* ------------------------------------- Poller (src/bot/sse_listener.py)
\* _is_expired: age > SESSION_MAX_AGE_SECONDS (created_at is always a
\* timestamp written by save_session, so the parse never fails)
is_expired(created_at, clock) == clock - created_at > SESSION_MAX_AGE_SECONDS

\* _adaptive_interval, for a process whose POLL_INTERVAL is `base`
adaptive_interval_late(base, session_count) ==
  IF session_count <= 100 THEN base
  ELSE IF session_count <= 300
       THEN (IF base > 45 THEN base ELSE 45)
       ELSE 60
adaptive_interval_of(base, session_count) ==
  IF session_count < 100 THEN base
  ELSE IF session_count < 300
       THEN (IF base > 45 THEN base ELSE 45)
       ELSE 60

\* _adaptive_interval with the default POLL_INTERVAL
adaptive_interval(session_count) == adaptive_interval_of(POLL_INTERVAL, session_count)

\* max_workers of the cycle's ThreadPoolExecutor
PoolSizeUncapped(n) == n
PoolSize(n) == IF MAX_CONCURRENT_POLLS < n THEN MAX_CONCURRENT_POLLS ELSE n

\* A future of the pool. pc: "none" no future; "queued" submitted, waiting for
\* a pool thread; "list" .. "enqueue" inside _check_new_messages; "returned" /
\* "raised" finished; "collected" its result was taken by the as_completed loop.
\* idx is the position in `messages`. The other fields observe the task:
\* listed (get_messages returned), exc (an exception left the function),
\* unseen0 (the listed ids not in the ledger when the list was fetched),
\* own (the ids whose ledger row was written by this task's own INSERT),
\* fwd (the ids passed to on_new, in order), lost (the ids whose processing
\* failed after this task claimed them), and prev, the same user's task of
\* the cycle before: whether it ran clean, what it forwarded and what it lost.
NoPrev == [clean |-> FALSE, fwd |-> << >>, lost |-> {}]
NoTask == [pc |-> "none", idx |-> 0, listed |-> FALSE, exc |-> FALSE,
           unseen0 |-> {}, own |-> {}, fwd |-> << >>, lost |-> {}, prev |-> NoPrev]

\* the task listed the mailbox, no step of it failed and it returned
Clean(t) == t.pc \in {"returned", "collected"} /\ t.listed /\ ~t.exc /\ t.lost = {}
\* the task was abandoned: the list fetch failed, or an exception left it
Failed(t) == t.pc \in {"returned", "raised", "collected"} /\ (t.exc \/ ~t.listed)

CurMsg(u) == Mailbox(u)[task[u].idx]
Running == {u \in Users : task[u].pc \in {"list", "claim", "detail", "parse", "enqueue"}}
Finished(u) == task[u].pc \in {"returned", "raised", "collected"}

Bump(f, id) == [f EXCEPT ![id] = IF @ < 2 THEN @ + 1 ELSE @]

\* the `for msg in messages` loop moves on to the next entry, or the function
\* returns any_new
NextMsg(t, u) ==
  IF t.idx < Len(Mailbox(u)) THEN [t EXCEPT !.pc = "claim", !.idx = @ + 1]
  ELSE [t EXCEPT !.pc = "returned"]

PollerIdle ==
  /\ cycle0 \in StartCycles
  /\ cycle = cycle0
  /\ schedPc = "load"
  /\ active = {}
  /\ interval = 0
  /\ task = [u \in Users |-> NoTask]
  /\ msg_queue = << >>
  /\ sending = [user_id |-> "none", id |-> "none", state |-> "idle", posts |-> 0]
  /\ rf = [pc |-> "idle", user |-> "none", idx |-> 0, n |-> 0]
  /\ notified = [id \in MsgIds |-> 0]
  /\ failures = [id \in MsgIds |-> 0]

\* worker(), lines 63-65: cycle += 1; sessions = db.get_all_sessions();
\* active = the sessions that are not expired. get_all_sessions may raise
\* (sqlite3.Error); nothing in worker() catches it, and the thread ends.
SchedLoad ==
  /\ schedPc = "load"
  /\ cycle - cycle0 < MaxCycles
  /\ cycle' = cycle + 1
  /\ \E ok \in BOOLEAN :
       IF ok
       THEN /\ active' = {r.user_id : r \in {x \in get_all_sessions(sessions) :
                                               ~is_expired(x.created_at, now)}}
            /\ schedPc' = "loaded"
       ELSE /\ schedPc' = "dead"
            /\ active' = active
  /\ UNCHANGED <<cycle0, interval, task, queueVars, rf, obsVars, storeVars, ledgerVars, rateVars, extVars>>

\* worker(), lines 67-69: every tenth cycle, cleanup_expired_sessions() and
\* then cleanup_old_messages(); either may raise, uncaught as above.
SchedCleanup ==
  /\ schedPc = "loaded"
  /\ cycle % CLEANUP_EVERY_N_CYCLES = 0
  /\ \E outcome \in {"ok", "first_raises", "second_raises"} :
       /\ sessions' = IF outcome = "first_raises" THEN sessions
                      ELSE cleanup_expired_sessions(sessions, now)
       /\ messages_seen' = IF outcome = "ok" THEN cleanup_old_messages(messages_seen, now)
                           ELSE messages_seen
       /\ schedPc' = IF outcome = "ok" THEN "cleaned" ELSE "dead"
  /\ UNCHANGED <<now, cycle, cycle0, active, interval, task, queueVars, rf, obsVars, ledgerVars, rateVars, extVars>>

CleanupPassed ==
  \/ schedPc = "cleaned"
  \/ schedPc = "loaded" /\ cycle % CLEANUP_EVERY_N_CYCLES # 0

\* worker(), lines 71-73: no active session: time.sleep(POLL_INTERVAL); continue
SchedIdleCycle ==
  /\ CleanupPassed
  /\ active = {}
  /\ interval' = POLL_INTERVAL
  /\ schedPc' = "sleep"
  /\ UNCHANGED <<cycle, cycle0, active, task, queueVars, rf, obsVars, storeVars, ledgerVars, rateVars, extVars>>

\* worker(), lines 78-87: the pool is created and one _check_new_messages is
\* submitted for every active session
SchedSubmit ==
  /\ CleanupPassed
  /\ active # {}
  /\ task' = [u \in Users |->
                IF u \in active
                THEN [NoTask EXCEPT !.pc = "queued",
                                    !.prev = [clean |-> Clean(task[u]),
                                              fwd |-> task[u].fwd,
                                              lost |-> task[u].lost]]
                ELSE NoTask]
  /\ schedPc' = "collect"
  /\ UNCHANGED <<cycle, cycle0, active, interval, queueVars, rf, obsVars, storeVars, ledgerVars, rateVars, extVars>>

\* what the as_completed loop does with a finished future (lines 88-92):
\* fut.result() returns, or raises and the except clause logs it; either way
\* the loop goes on.
FutResultPropagates(pc) == IF pc = "raised" THEN "propagates" ELSE "taken"
FutResult(pc) == IF pc = "raised" THEN "logged" ELSE "taken"

SchedCollect(u) ==
  /\ schedPc = "collect"
  /\ task[u].pc \in {"returned", "raised"}
  /\ IF FutResult(task[u].pc) = "propagates"
     THEN schedPc' = "dead" /\ task' = task
     ELSE schedPc' = schedPc /\ task' = [task EXCEPT ![u].pc = "collected"]
  /\ UNCHANGED <<cycle, cycle0, active, interval, queueVars, rf, obsVars, storeVars, ledgerVars, rateVars, extVars>>

\* lines 78 and 88-92: the as_completed loop ends when every future of the
\* cycle has completed and its result was taken, and leaving the with block
\* shuts the executor down with wait=True
PoolLeftAtFirstResult == \E u \in active : task[u].pc = "collected"
PoolDrained == \A u \in active : task[u].pc = "collected"

\* worker(), lines 88-94: every future was taken, the pool is shut down,
\* interval = _adaptive_interval(len(active))
SchedCycleEnd ==
  /\ schedPc = "collect"
  /\ PoolDrained
  /\ interval' = adaptive_interval(Cardinality(active))
  /\ schedPc' = "sleep"
  /\ UNCHANGED <<cycle, cycle0, active, task, queueVars, rf, obsVars, storeVars, ledgerVars, rateVars, extVars>>

\* time.sleep(interval) returns and the loop starts over; the wall clock has
\* moved by the interval, or by more.
SchedWake ==
  /\ schedPc = "sleep"
  /\ \E stall \in Stalls : now' = now + interval + stall
  /\ schedPc' = "load"
  /\ UNCHANGED <<cycle, cycle0, active, interval, task, queueVars, rf, obsVars,
                 sessions, messages_seen, ledgerVars, rateVars, extVars>>

\* The wall clock moves while the pool works: a task's requests take time
\* (timeout=15, the backoff sleeps), and a task may wait for a pool thread.
ClockTick ==
  /\ schedPc = "collect"
  /\ elapsed < MaxDrift
  /\ now' = now + 1
  /\ elapsed' = elapsed + 1
  /\ UNCHANGED <<sessions, messages_seen, ledgerVars, pollVars, rateVars, dq, ai, rq, cl, px, nf, pool,
                 last_op>>

\* a pool thread takes a submitted task: at most max_workers run at a time
TaskStart(u) ==
  /\ task[u].pc = "queued"
  /\ Cardinality(Running) < PoolSize(Cardinality(active))
  /\ task' = [task EXCEPT ![u].pc = "list"]
  /\ UNCHANGED <<schedVars, queueVars, rf, obsVars, storeVars, ledgerVars, rateVars, extVars>>

\* _check_new_messages, lines 37-41: get_messages(token) returns the list, or
\* raises, which is logged and the function returns False
TaskList(u) ==
  /\ task[u].pc = "list"
  /\ \E ok \in BOOLEAN :
       task' = [task EXCEPT ![u] =
                  IF ok
                  THEN NextMsg([@ EXCEPT !.listed = TRUE,
                                  !.unseen0 = {Mailbox(u)[i] : i \in 1..Len(Mailbox(u))}
                                                \ ({NoId} \cup SeenIds(messages_seen))], u)
                  ELSE [@ EXCEPT !.pc = "returned"]]
  /\ UNCHANGED <<schedVars, queueVars, rf, obsVars, storeVars, ledgerVars, rateVars, extVars>>

\* lines 45-47: msg_id = msg.get("id"); an entry without id is skipped;
\* otherwise db.claim_message_seen(msg_id), and an id that was already there is
\* skipped. These lines are outside the try: an exception here (msg is not a
\* mapping, the store raises) leaves the function and ends the task.
TaskClaim(u) ==
  /\ task[u].pc = "claim"
  /\ \E raises \in BOOLEAN :
       IF raises
       THEN /\ task' = [task EXCEPT ![u].pc = "raised", ![u].exc = TRUE]
            /\ messages_seen' = messages_seen
       ELSE IF CurMsg(u) = NoId
       THEN /\ task' = [task EXCEPT ![u] = NextMsg(@, u)]
            /\ messages_seen' = messages_seen
       ELSE /\ messages_seen' = InsertOrIgnore(messages_seen, CurMsg(u), now)
            /\ task' = [task EXCEPT ![u] =
                          LET t == [@ EXCEPT !.own = IF CurMsg(u) \in SeenIds(messages_seen)
                                                      THEN @ ELSE @ \cup {CurMsg(u)}]
                          IN IF claim_message_seen_ret(messages_seen, CurMsg(u))
                             THEN [t EXCEPT !.pc = "detail"]
                             ELSE NextMsg(t, u)]
  /\ UNCHANGED <<now, sessions, schedVars, queueVars, rf, obsVars, ledgerVars, rateVars, extVars>>

\* lines 53-55: the except clause of the per-message try:
\* db.unmark_message_seen(msg_id), log, and on to the next entry
KeepClaimOnFailure(t, id) == t
OnProcessingFailure(t, id) == unmark_message_seen(t, id)

\* the try of lines 48-55 is inside the for loop: after the except clause
\* the loop goes on with the next entry of the list
AfterFailureReturn(t, u) == [t EXCEPT !.pc = "returned"]
AfterFailure(t, u) == NextMsg(t, u)

TaskFail(u) ==
  /\ messages_seen' = OnProcessingFailure(messages_seen, CurMsg(u))
  /\ task' = [task EXCEPT ![u] = AfterFailure([@ EXCEPT !.lost = @ \cup {CurMsg(u)}], u)]
  /\ failures' = Bump(failures, CurMsg(u))
  /\ UNCHANGED <<now, sessions, schedVars, queueVars, rf, notified, ledgerVars, rateVars, extVars>>

\* line 49: detail = get_message_detail(token, msg_id): the detail, None when
\* the provider answers 404, or an exception
TaskDetail(u) ==
  /\ task[u].pc = "detail"
  /\ \E outcome \in {"detail", "not_found", "raises"} :
       IF outcome = "raises" THEN TaskFail(u)
       ELSE /\ task' = [task EXCEPT ![u].pc = "parse"]
            /\ UNCHANGED <<storeVars, schedVars, queueVars, rf, obsVars, ledgerVars, rateVars, extVars>>

\* what a None from get_message_detail does to the ledger: nothing, the
\* except clause (53-55) is not entered
UnclaimOnNotFound(t, id) == unmark_message_seen(t, id)
OnNotFound(t, id) == t

\* line 49 when the provider answers 404: get_message_detail returns None
\* (mail_service.py 104-105) and the task goes on to parse_message(msg, None)
TaskDetailNotFound(u) ==
  /\ task[u].pc = "detail"
  /\ task' = [task EXCEPT ![u].pc = "parse"]
  /\ messages_seen' = OnNotFound(messages_seen, CurMsg(u))
  /\ nf' = nf \cup {CurMsg(u)}
  /\ UNCHANGED <<now, sessions, schedVars, queueVars, rf, obsVars, ledgerVars, rateVars,
                 dq, ai, rq, cl, px, elapsed, pool, last_op>>

\* line 50: parsed = parse_message(msg, detail)
TaskParse(u) ==
  /\ task[u].pc = "parse"
  /\ \E ok \in BOOLEAN :
       IF ~ok THEN TaskFail(u)
       ELSE /\ task' = [task EXCEPT ![u].pc = "enqueue"]
            /\ UNCHANGED <<storeVars, schedVars, queueVars, rf, obsVars, ledgerVars, rateVars, extVars>>

\* lines 51-52: on_new(user_id, msg_id, parsed); any_new = True. on_new is
\* app.py's on_new_message: message_queue.put((user_id, parsed)).
TaskEnqueue(u) ==
  /\ task[u].pc = "enqueue"
  /\ \E ok \in BOOLEAN :
       IF ~ok THEN TaskFail(u) /\ UNCHANGED msg_queue /\ UNCHANGED sending
       ELSE /\ msg_queue' = Append(msg_queue, [user_id |-> u, id |-> CurMsg(u)])
            /\ task' = [task EXCEPT ![u] = NextMsg([@ EXCEPT !.fwd = Append(@, CurMsg(u))], u)]
            /\ UNCHANGED <<storeVars, schedVars, sending, rf, obsVars, ledgerVars, rateVars, extVars>>

\* A cycle's pool on its own, for more sessions than Users holds: the
\* sessions are numbered, and of a task only its place in the pool is kept.
\* worker(), lines 64-65 and 78-87: the sessions are loaded, the active ones
\* kept, and one _check_new_messages is submitted for each of them to a
\* ThreadPoolExecutor(max_workers=min(MAX_CONCURRENT_POLLS, len(active))).
PoolSubmit ==
  /\ schedPc = "load"
  /\ pool = << >>
  /\ active' = {r.user_id : r \in {x \in get_all_sessions(sessions) :
                                      ~is_expired(x.created_at, now)}}
  /\ active' # {}
  /\ pool' = [u \in active' |-> "queued"]
  /\ schedPc' = "collect"
  /\ UNCHANGED <<cycle, cycle0, interval, task, queueVars, rf, obsVars>>
  /\ UNCHANGED <<storeVars, ledgerVars, rateVars, dq, ai, rq, cl, px, nf, elapsed, last_op>>

PoolRunning == {u \in DOMAIN pool : pool[u] = "running"}

\* a thread of the executor takes a submitted task; the executor starts no
\* more than max_workers threads
PoolStart(u) ==
  /\ u \in DOMAIN pool /\ pool[u] = "queued"
  /\ Cardinality(PoolRunning) < PoolSize(Cardinality(active))
  /\ pool' = [pool EXCEPT ![u] = "running"]
  /\ UNCHANGED <<storeVars, ledgerVars, pollVars, rateVars, dq, ai, rq, cl, px, nf, elapsed, last_op>>

\* the task returns or raises, and its thread is free for the next one
PoolFinish(u) ==
  /\ u \in DOMAIN pool /\ pool[u] = "running"
  /\ pool' = [pool EXCEPT ![u] = "finished"]
  /\ UNCHANGED <<storeVars, ledgerVars, pollVars, rateVars, dq, ai, rq, cl, px, nf, elapsed, last_op>>

\* ------------------------------------------ Sender (src/bot/sender.py)
\* run_sender_thread.worker: msg_queue.get(timeout=2) returns the oldest item
\* (when the queue is empty it raises queue.Empty, which is passed over: no
\* change of state)
get_newest(q) == q[Len(q)]
get(q) == Head(q)

SenderTake ==
  /\ sending.state # "taken"
  /\ msg_queue # << >>
  /\ sending' = [user_id |-> get(msg_queue).user_id, id |-> get(msg_queue).id,
                 state |-> "taken", posts |-> 0]
  /\ msg_queue' = Tail(msg_queue)
  /\ UNCHANGED <<schedVars, task, rf, obsVars, storeVars, ledgerVars, rateVars>>
  /\ UNCHANGED <<ai, rq, cl, nf, elapsed, pool, last_op, px>>

SenderGet == SenderTake /\ UNCHANGED dq

\* send_message_sync(bot_token, user_id, parsed): one POST to the chat API;
\* True when it succeeds, False (logged) when it raises. The worker ignores
\* the result, sleeps 0.3 s and takes the next item.
SenderPost ==
  /\ sending.state = "taken"
  /\ \E ok \in BOOLEAN :
       /\ notified' = IF ok THEN Bump(notified, sending.id) ELSE notified
       /\ failures' = IF ok THEN failures ELSE Bump(failures, sending.id)
       /\ sending' = [sending EXCEPT !.state = IF ok THEN "sent" ELSE "failed",
                                     !.posts = @ + 1]
  /\ UNCHANGED <<schedVars, task, msg_queue, rf, storeVars, ledgerVars, rateVars>>
  /\ UNCHANGED <<ai, rq, cl, nf, elapsed, pool, last_op, px>>

SenderSend == SenderPost /\ UNCHANGED dq

\* The queue and its consumer on their own, observed. app.py 100-101,
\* on_new_message: message_queue.put((user_id, parsed)); any thread may call
\* it, and queue.Queue() has no maximum size, so put never blocks.
Item(u, id) == [user_id |-> u, id |-> id]
DqIdle == [put |-> << >>, got |-> << >>, tried |-> << >>]

OnNewMessage(u, id) ==
  /\ Len(dq.put) < MaxPuts
  /\ msg_queue' = Append(msg_queue, Item(u, id))
  /\ dq' = [dq EXCEPT !.put = Append(@, Item(u, id))]
  /\ UNCHANGED <<schedVars, task, sending, rf, obsVars, storeVars, ledgerVars, rateVars>>
  /\ UNCHANGED <<ai, rq, cl, nf, elapsed, pool, last_op, px>>

\* line 76 and line 77, with what the consumer got and what it tried logged
SenderGetLogged ==
  /\ SenderTake
  /\ dq' = [dq EXCEPT !.got = Append(@, Item(sending'.user_id, sending'.id))]

SenderSendLogged ==
  /\ SenderPost
  /\ dq' = [dq EXCEPT !.tried = Append(@, [user_id |-> sending.user_id, id |-> sending.id,
                                            ok |-> sending'.state = "sent"])]

\* ------------------------- Manual refresh (src/bot/handlers.py, 210-275)
\* callback_refresh runs on the bot's event-loop thread, beside the poller's
\* threads. One handler is in flight at a time. Its awaits and its blocking
\* calls are the points where the other threads' steps fall in between.
RfIdle(n) == [pc |-> "idle", user |-> "none", idx |-> 0, n |-> n]
RfMsg == Mailbox(rf.user)[rf.idx]

\* the `for msg in messages` loop of the handler moves on, or the handler ends
RfNext(r) ==
  IF r.idx < Len(Mailbox(r.user)) THEN [r EXCEPT !.pc = "check", !.idx = @ + 1]
  ELSE RfIdle(r.n)

\* lines 213-236: the handler goes on to the mailbox only when the rate
\* limiter allows the action (its verdict is an input here; the limiter is
\* modelled under SpecRate), the user has a session and it is not expired;
\* otherwise it answers the user and returns, changing nothing.
RefreshStart(u) ==
  /\ rf.pc = "idle"
  /\ \E r \in sessions : r.user_id = u /\ ~is_expired(r.created_at, now)
  /\ rf.n < MaxRefresh
  /\ rf' = [pc |-> "list", user |-> u, idx |-> 0, n |-> rf.n + 1]
  /\ UNCHANGED <<schedVars, task, queueVars, obsVars, storeVars, ledgerVars, rateVars, extVars>>

\* line 239: messages = get_messages(session["token"]); an exception goes to
\* the handler's except clause (267) and the handler ends
RefreshList ==
  /\ rf.pc = "list"
  /\ \E ok \in BOOLEAN : rf' = IF ok THEN RfNext(rf) ELSE RfIdle(rf.n)
  /\ UNCHANGED <<schedVars, task, queueVars, obsVars, storeVars, ledgerVars, rateVars, extVars>>

\* lines 242-243: msg_id and not db.is_message_seen(msg_id)
RefreshCheck ==
  /\ rf.pc = "check"
  /\ rf' = IF RfMsg # NoId /\ ~is_message_seen(messages_seen, RfMsg)
           THEN [rf EXCEPT !.pc = "deliver"]
           ELSE RfNext(rf)
  /\ UNCHANGED <<schedVars, task, queueVars, obsVars, storeVars, ledgerVars, rateVars, extVars>>

\* lines 244-246: get_message_detail, parse_message and
\* await _send_message_to_user: the user gets the notification, or one of the
\* three raises and the handler ends in its except clause
RefreshDeliver ==
  /\ rf.pc = "deliver"
  /\ \E ok \in BOOLEAN :
       /\ rf' = IF ok THEN [rf EXCEPT !.pc = "mark"] ELSE RfIdle(rf.n)
       /\ notified' = IF ok THEN Bump(notified, RfMsg) ELSE notified
       /\ failures' = IF ok THEN failures ELSE Bump(failures, RfMsg)
  /\ UNCHANGED <<schedVars, task, queueVars, storeVars, ledgerVars, rateVars, extVars>>

\* lines 247-248: db.mark_message_seen(msg_id) (INSERT OR IGNORE); new_count += 1
RefreshMark ==
  /\ rf.pc = "mark"
  /\ messages_seen' = InsertOrIgnore(messages_seen, RfMsg, now)
  /\ rf' = RfNext(rf)
  /\ UNCHANGED <<now, sessions, schedVars, task, queueVars, obsVars, ledgerVars, rateVars, extVars>>

\* ------------------------------- Rate limiter (src/bot/rate_limiter.py)
RATE_LIMIT_CREATE == 3
RATE_LIMIT_REFRESH == 10
RATE_LIMIT_GENERAL == 20
CLEANUP_INTERVAL == 300

\* the actions handlers.py passes to is_allowed
RateActions == {"create_mail", "refresh", "general"}
RThreads == 1..NThreads
NoThread == 0

\* LIMITS.get(action, LIMITS["general"]): (max_count, window)
LIMITS(action) ==
  CASE action = "create_mail" -> [max_count |-> RATE_LIMIT_CREATE, window |-> 3600]
    [] action = "refresh" -> [max_count |-> RATE_LIMIT_REFRESH, window |-> 60]
    [] OTHER -> [max_count |-> RATE_LIMIT_GENERAL, window |-> 60]

\* line 35: key = f"{user_id}:{action}"
Key(user_id, action) == <<user_id, action>>

\* _buckets[key] of a defaultdict(list): the list, empty for a missing key
Bucket(b, key) == IF key \in DOMAIN b THEN b[key] ELSE << >>

\* _cleanup_if_needed: past the interval, the keys with an empty list are
\* popped and _LAST_CLEANUP becomes the clock read inside the function.
cleanup_due(clock, last) == ~(clock - last < CLEANUP_INTERVAL)
stale_keys(b) == {k \in DOMAIN b : b[k] = << >>}
swept(b) == [k \in DOMAIN b \ stale_keys(b) |-> b[k]]

\* line 42: the timestamps that stay, [t for t in timestamps if t > cutoff]
StaysInclusive(t, cutoff) == t >= cutoff
Stays(t, cutoff) == t > cutoff
Pruned(ts, cutoff) == SelectSeq(ts, LAMBDA t : Stays(t, cutoff))

\* line 43: if len(_buckets[key]) >= max_count: return False
ThrottledPastLimit(ts, max_count) == Len(ts) > max_count
Throttled(ts, max_count) == Len(ts) >= max_count

\* lines 43-46: a full list is left as pruned (return False); otherwise
\* `now` is appended (return True)
recorded_always(kept, full, clock) == Append(kept, clock)
recorded(kept, full, clock) == IF full THEN kept ELSE Append(kept, clock)

\* the key of a second user doing the same action as the run's user
NoKey == <<"none", "none">>
OtherKey == Key("u2", rkey[2])

ThrIdle == [pc |-> "idle", now |-> 0, key |-> NoKey]
RateWindow == LIMITS(rkey[2]).window
RateLimit == LIMITS(rkey[2]).max_count

\* No thread is in the rate limiter (the module as imported).
RateIdle ==
  /\ last_cleanup = 0
  /\ buckets = << >>
  /\ lock = NoThread
  /\ thr = [t \in RThreads |-> ThrIdle]
  /\ rticks = 0
  /\ rlog = << >>

\* is_allowed, lines 34-37: the limits, the key, now = time.monotonic() and
\* cutoff = now - window, all before the lock is asked for.
RateCall(t) ==
  /\ thr[t].pc = "idle"
  /\ Len(rlog) + Cardinality({x \in RThreads : thr[x].pc # "idle"}) < rbudget
  /\ thr' = [thr EXCEPT ![t] = [pc |-> "at_lock", now |-> mono, key |-> rkey]]
  /\ UNCHANGED <<mono, last_cleanup, buckets, lock, rkey, rticks, rbudget, rlog>>
  /\ UNCHANGED <<storeVars, ledgerVars, pollVars, extVars>>

\* the same lines, in a call made for the second user
RateCallOther(t) ==
  /\ thr[t].pc = "idle"
  /\ Len(Bucket(buckets, OtherKey)) < MaxOtherCalls
  /\ thr' = [thr EXCEPT ![t] = [pc |-> "at_lock", now |-> mono, key |-> OtherKey]]
  /\ UNCHANGED <<mono, last_cleanup, buckets, lock, rkey, rticks, rbudget, rlog>>
  /\ UNCHANGED <<storeVars, ledgerVars, pollVars, extVars>>

\* lines 39-40: with _lock: the thread waits until the lock is free, takes
\* it and runs _cleanup_if_needed(), which reads the clock again.
RateAcquire(t) ==
  /\ thr[t].pc = "at_lock"
  /\ lock = NoThread
  /\ lock' = t
  /\ IF cleanup_due(mono, last_cleanup)
       THEN last_cleanup' = mono /\ buckets' = swept(buckets)
       ELSE UNCHANGED <<last_cleanup, buckets>>
  /\ thr' = [thr EXCEPT ![t].pc = "locked"]
  /\ UNCHANGED <<mono, rkey, rticks, rbudget, rlog>>
  /\ UNCHANGED <<storeVars, ledgerVars, pollVars, extVars>>

\* lines 41-46: prune the key's list with the cutoff computed at line 37,
\* return False when it is full, else append `now` and return True; leaving
\* the with block releases the lock.
RateDecide(t) ==
  /\ thr[t].pc = "locked"
  /\ lock = t
  /\ LET key == thr[t].key
         kept == Pruned(Bucket(buckets, key), thr[t].now - RateWindow)
         full == Throttled(kept, RateLimit)
         list == recorded(kept, full, thr[t].now)
     IN /\ buckets' = [k \in DOMAIN buckets \cup {key} |->
                         IF k = key THEN list ELSE buckets[k]]
        /\ rlog' = IF key = rkey
                    THEN Append(rlog, [t |-> thr[t].now, ret |-> ~full])
                    ELSE rlog
  /\ lock' = NoThread
  /\ thr' = [thr EXCEPT ![t] = ThrIdle]
  /\ UNCHANGED <<mono, last_cleanup, rkey, rticks, rbudget>>
  /\ UNCHANGED <<storeVars, ledgerVars, pollVars, extVars>>

\* The monotonic clock moves: by a second, by a second less than the key's
\* window, or by the window.
TickSteps == {1, RateWindow - 1, RateWindow}
RateTick ==
  /\ rticks < MaxTicks
  /\ \E d \in TickSteps : mono' = mono + d
  /\ rticks' = rticks + 1
  /\ UNCHANGED <<last_cleanup, buckets, lock, thr, rkey, rbudget, rlog>>
  /\ UNCHANGED <<storeVars, ledgerVars, pollVars, extVars>>

\* Nobody calls for the length of the sweep interval.
RateQuiet ==
  /\ rticks < MaxTicks
  /\ mono' = mono + CLEANUP_INTERVAL
  /\ rticks' = rticks + 1
  /\ UNCHANGED <<last_cleanup, buckets, lock, thr, rkey, rbudget, rlog>>
  /\ UNCHANGED <<storeVars, ledgerVars, pollVars, extVars>>

\* ---------------- the end of a cycle (src/bot/sse_listener.py, 94-95)
\* POLL_INTERVAL is read from the environment (config.py:17): the bases a
\* deployment may configure, and the numbers of active sessions of a cycle.
Bases == {1, 15, 44, 45, 46, 60, 90}
Counts == {0, 1, 50, 99, 100, 150, 299, 300, 500}
AiIdle == [base |-> POLL_INTERVAL, n |-> 0, pc |-> "idle"]

\* lines 94-95 of a cycle with ai.n active sessions:
\* interval = _adaptive_interval(len(active)); time.sleep(interval)
CycleEndSleep ==
  /\ ai.pc = "cycle"
  /\ interval' = adaptive_interval_of(ai.base, ai.n)
  /\ ai' = [ai EXCEPT !.pc = "sleep"]
  /\ UNCHANGED <<cycle, cycle0, schedPc, active, task, queueVars, rf, obsVars>>
  /\ UNCHANGED <<storeVars, ledgerVars, rateVars, rq, cl, moreVars>>

\* ------------------- Mail Provider Client (src/bot/mail_service.py)
RETRY_ATTEMPTS == 3
RETRY_BACKOFF == <<1, 2, 4>>

\* What one requests.request(...) can end in: a response, by its status class
\* (404 and 422 are told apart from the other 4xx by the callers), or an
\* exception of the requests library. A 5xx response is turned into a
\* RequestException at line 26.
Responses == {"2xx", "404", "422", "4xx"}
Transient == {"5xx", "timeout", "conn_error"}
Outcomes == Responses \cup Transient

ReqEvent(o) == [ev |-> "request", out |-> o, d |-> 0]
SleepEvent(d) == [ev |-> "sleep", out |-> "none", d |-> d]

RqIdle == [pc |-> "idle", attempt |-> 0, resp |-> "none", log |-> << >>]
\* _retry_request is entered: last_exc = None, attempt = 0
RqStart == [pc |-> "request", attempt |-> 0, resp |-> "none", log |-> << >>]

Min(a, b) == IF a <= b THEN a ELSE b

\* line 31: delay = RETRY_BACKOFF[min(attempt, len(RETRY_BACKOFF) - 1)]
\* (attempt counts from 0, a TLA+ sequence from 1)
backoff_delay_first(attempt) == RETRY_BACKOFF[1]
backoff_delay(attempt) == RETRY_BACKOFF[Min(attempt, Len(RETRY_BACKOFF) - 1) + 1]

\* line 30: if attempt < RETRY_ATTEMPTS - 1
sleeps_after(attempt) == attempt < RETRY_ATTEMPTS - 1

\* what is retried (line 28): requests.Timeout and requests.RequestException
retried_also_4xx(o) == o \in Transient \cup {"4xx"}
retried(o) == o \in Transient

\* lines 22-34, one pass of the loop: the request; a response is returned; an
\* exception is kept in last_exc, and then either the loop sleeps, or (last
\* attempt) the loop ends and last_exc is raised.
RetryRequest ==
  /\ rq.pc = "request"
  /\ \E o \in Outcomes :
       rq' = [rq EXCEPT
                !.log = Append(@, ReqEvent(o)),
                !.resp = IF retried(o) THEN "none" ELSE o,
                !.pc = IF ~retried(o) THEN "returned"
                       ELSE IF sleeps_after(rq.attempt) THEN "sleep"
                       ELSE IF rq.attempt + 1 < RETRY_ATTEMPTS THEN "request"
                       ELSE "raised",
                !.attempt = IF retried(o) /\ ~sleeps_after(rq.attempt)
                            THEN @ + 1 ELSE @]
  /\ UNCHANGED <<ai, cl, moreVars>>
  /\ UNCHANGED <<storeVars, ledgerVars, pollVars, rateVars>>

\* line 33: time.sleep(delay), and on to the next attempt
RetrySleep ==
  /\ rq.pc = "sleep"
  /\ rq' = [rq EXCEPT
              !.log = Append(@, SleepEvent(backoff_delay(rq.attempt))),
              !.attempt = @ + 1,
              !.pc = IF rq.attempt + 1 < RETRY_ATTEMPTS THEN "request" ELSE "raised"]
  /\ UNCHANGED <<ai, cl, moreVars>>
  /\ UNCHANGED <<storeVars, ledgerVars, pollVars, rateVars>>

ClIdle == [fn |-> "none", pc |-> "idle", result |-> "none", conflicts |-> 0]
ListingOps == {"get_messages", "get_message_detail"}

\* get_messages (85-91) or get_message_detail (97-103) calls _retry_request
ClientCall(fn) ==
  /\ cl.pc = "idle"
  /\ cl' = [cl EXCEPT !.fn = fn, !.pc = "wait"]
  /\ rq' = RqStart
  /\ UNCHANGED <<ai, moreVars>>
  /\ UNCHANGED <<storeVars, ledgerVars, pollVars, rateVars>>

\* what the caller makes of the response: get_messages (92-94) raises on a
\* 4xx by resp.raise_for_status(); get_message_detail (104-107) returns None
\* on 404 and raises on any other 4xx
ResultOf(fn, resp) ==
  IF resp = "2xx" THEN "value"
  ELSE IF fn = "get_message_detail" /\ resp = "404" THEN "none"
  ELSE "raised_http"

\* _retry_request has returned or raised, and so does the operation
ClientFinish ==
  /\ cl.pc = "wait"
  /\ cl.fn \in ListingOps
  /\ rq.pc \in {"returned", "raised"}
  /\ cl' = [cl EXCEPT !.pc = "done",
                      !.result = IF rq.pc = "raised" THEN "raised"
                                 ELSE ResultOf(cl.fn, rq.resp)]
  /\ UNCHANGED <<ai, rq, moreVars>>
  /\ UNCHANGED <<storeVars, ledgerVars, pollVars, rateVars>>

\* create_account (46-82). It is entered (also by its own line 67) and calls
\* get_domains, which calls _retry_request (39).
CreateStart ==
  /\ cl.pc = "idle"
  /\ cl' = [cl EXCEPT !.fn = "create_account", !.pc = "domains"]
  /\ rq' = RqStart
  /\ UNCHANGED <<ai, moreVars>>
  /\ UNCHANGED <<storeVars, ledgerVars, pollVars, rateVars>>

\* get_domains (40-43) raises or returns the active domains, none perhaps;
\* create_account raises ValueError without a domain (52-53), else draws the
\* address and the password and posts them to /accounts (54-64)
CreateDomains ==
  /\ cl.fn = "create_account" /\ cl.pc = "domains"
  /\ rq.pc \in {"returned", "raised"}
  /\ \E domains \in {0, 1} :
       IF rq.pc = "raised" \/ rq.resp # "2xx" \/ domains = 0
       THEN /\ cl' = [cl EXCEPT !.pc = "done",
                        !.result = IF rq.pc = "raised" THEN "raised"
                                   ELSE IF rq.resp # "2xx" THEN "raised_http"
                                   ELSE "raised_value"]
            /\ rq' = rq
       ELSE /\ cl' = [cl EXCEPT !.pc = "accounts"]
            /\ rq' = RqStart
  /\ UNCHANGED <<ai, moreVars>>
  /\ UNCHANGED <<storeVars, ledgerVars, pollVars, rateVars>>

\* line 67, return create_account(): the call starts over from get_domains,
\* one frame deeper; cl.conflicts counts the frames (up to MaxConflicts, the
\* program keeps no count)
retry_on_conflict(c) ==
  [c EXCEPT !.pc = "domains", !.conflicts = Min(@ + 1, MaxConflicts)]

\* lines 65-71: the answer to POST /accounts. 422 starts the creation over,
\* another 4xx raises (68), a success goes on to POST /token (72-77)
CreateAccounts ==
  /\ cl.fn = "create_account" /\ cl.pc = "accounts"
  /\ rq.pc \in {"returned", "raised"}
  /\ IF rq.pc = "returned" /\ rq.resp = "422"
     THEN cl' = retry_on_conflict(cl) /\ rq' = RqStart
     ELSE IF rq.pc = "returned" /\ rq.resp = "2xx"
     THEN cl' = [cl EXCEPT !.pc = "token"] /\ rq' = RqStart
     ELSE /\ cl' = [cl EXCEPT !.pc = "done",
                      !.result = IF rq.pc = "raised" THEN "raised" ELSE "raised_http"]
          /\ rq' = rq
  /\ UNCHANGED <<ai, moreVars>>
  /\ UNCHANGED <<storeVars, ledgerVars, pollVars, rateVars>>

\* lines 78-82: the answer to POST /token; (email, token, account_id) is
\* returned through every frame of line 67
CreateToken ==
  /\ cl.fn = "create_account" /\ cl.pc = "token"
  /\ rq.pc \in {"returned", "raised"}
  /\ cl' = [cl EXCEPT !.pc = "done",
              !.result = IF rq.pc = "raised" THEN "raised"
                         ELSE IF rq.resp = "2xx" THEN "value" ELSE "raised_http"]
  /\ UNCHANGED <<ai, rq, moreVars>>
  /\ UNCHANGED <<storeVars, ledgerVars, pollVars, rateVars>>

\* ------------------- Message Parser (src/bot/message_parser.py)
MAX_LINKS_PER_MESSAGE == 5

\* The links a message body may hold and the values a detail's
\* "verifications" may hold. The functions below look for substrings in the
\* lower-cased URL; here each URL is listed under what it contains.
BodyUrls ==
  {"https://x/verify", "https://x/signup", "https://x/page", "https://x/docs",
   "https://x/faq", "https://cdn.x/logo.png"}
VerificationValues ==
  {"https://x/confirm", "https://x/help", "https://x/pixel", "https://x/page", "otp-1234"}

\* _is_image_or_tracking (45-53): an image extension, or "/pixel", "cdn.", ...
is_image_or_tracking(u) == u \in {"https://cdn.x/logo.png", "https://x/pixel"}

\* _activation_priority (56-63)
activation_priority(u) ==
  IF u \in {"https://x/verify", "https://x/confirm"} THEN 0
  ELSE IF u = "https://x/signup" THEN 1
  ELSE 2

\* v.startswith("http")
starts_with_http(v) == v # "otp-1234"

\* s[:n]
Take(s, n) == SubSeq(s, 1, Min(n, Len(s)))

\* list.sort(key=...): a stable sort; the key takes the values 0, 1, 2
sort_by_priority(s) ==
  SelectSeq(s, LAMBDA u : activation_priority(u) = 0)
    \o SelectSeq(s, LAMBDA u : activation_priority(u) = 1)
    \o SelectSeq(s, LAMBDA u : activation_priority(u) = 2)

\* extract_urls (104-124). `order` is the order in which the loop at 118
\* meets the elements of the set `urls`; the images and trackers are left
\* out, the rest is sorted by priority and cut to MAX_LINKS_PER_MESSAGE.
extract_urls(order) ==
  Take(sort_by_priority(SelectSeq(order, LAMBDA u : ~is_image_or_tracking(u))),
       MAX_LINKS_PER_MESSAGE)

\* parse_message, 176-178: every verification that starts with "http" and is
\* not among the urls yet is put in front of them
RECURSIVE insert_verifications(_, _)
insert_verifications(urls, verifications) ==
  IF verifications = << >> THEN urls
  ELSE LET v == Head(verifications)
       IN insert_verifications(
            IF starts_with_http(v) /\ v \notin {urls[i] : i \in 1..Len(urls)}
            THEN <<v>> \o urls ELSE urls,
            Tail(verifications))

\* parse_message, 171 and 176-179: the "urls" of the payload
parse_urls(order, verifications) ==
  Take(insert_verifications(extract_urls(order), verifications), MAX_LINKS_PER_MESSAGE)

\* ---- extract_codes (127-140). A text is a sequence of words separated by
\* blanks, a word a sequence of characters.
Digits == {"0", "1", "2", "3", "4", "5", "6", "7", "8", "9"}
isdigit(c) == c \in Digits
\* str.lower(), on the capitals that occur
lower_char(c) ==
  CASE c = "Y" -> "y" [] c = "S" -> "s" [] c = "T" -> "t" [] c = "E" -> "e"
    [] c = "A" -> "a" [] c = "M" -> "m" [] OTHER -> c
lower(w) == [i \in 1..Len(w) |-> lower_char(w[i])]

Words ==
  {<<"Y", "o", "u", "r">>, <<"c", "o", "d", "e">>, <<"i", "s">>,
   <<"4", "8", "2", "9", "1", "3">>, <<"1", "2", "3", "4", "5">>,
   <<"t", "e", "a", "m">>, <<"S", "t", "a", "r", "t", "e", "d">>,
   <<"w", "e", "l", "c", "o", "m", "e">>,
   <<"a", "1", "b", "2", "c", "3", "d", "4", "e", "5", "f", "6", "g">>}

\* CODE_STOPLIST (32-42), the entries that Words can produce
CODE_STOPLIST ==
  {<<"t", "e", "a", "m">>, <<"s", "t", "a", "r", "t", "e", "d">>,
   <<"y", "o", "u", "r">>}

\* the words that introduce a code in patterns 4-7 (24-27), re.IGNORECASE
CodeKeywords == {<<"c", "o", "d", "e">>, <<"o", "t", "p">>}

all_digits(w) == \A i \in 1..Len(w) : isdigit(w[i])
last_chars(w, n) == SubSeq(w, Len(w) - Min(n, Len(w)) + 1, Len(w))

\* patterns 1-3 (21-23): a run of exactly 6, 4 or 8 digits between word
\* boundaries
digit_matches(text) ==
  {text[i] : i \in {k \in 1..Len(text) : all_digits(text[k]) /\ Len(text[k]) \in {6, 4, 8}}}
\* patterns 4-7 (24-27): the keyword, blanks, and then the first 4 to 12
\* characters of the next word
keyword_matches(text) ==
  {Take(text[i + 1], 12) :
     i \in {k \in 1..(Len(text) - 1) :
              lower(text[k]) \in CodeKeywords /\ Len(text[k + 1]) >= 4}}
\* pattern 8 (28): 6 to 12 characters at the end of a word, then "is your" or
\* "code"
trailing_matches(text) ==
  {last_chars(text[i], 12) :
     i \in {k \in 1..(Len(text) - 1) :
              /\ Len(text[k]) >= 6
              /\ \/ lower(text[k + 1]) = <<"c", "o", "d", "e">>
                 \/ /\ k + 2 <= Len(text)
                    /\ lower(text[k + 1]) = <<"i", "s">>
                    /\ lower(text[k + 2]) = <<"y", "o", "u", "r">>}}

\* lines 135-138: what is kept of the matches
in_stoplist_as_written(code) == code \in CODE_STOPLIST
in_stoplist(code) == lower(code) \in CODE_STOPLIST
has_digit(code) == \E i \in 1..Len(code) : isdigit(code[i])
is_code(code) ==
  /\ code # << >> /\ 4 <= Len(code) /\ Len(code) <= 12 /\ ~in_stoplist(code)
  /\ (has_digit(code) \/ Len(code) >= 7)

\* the set `codes` at line 140
codes_found(text) ==
  {c \in digit_matches(text) \cup keyword_matches(text) \cup trailing_matches(text) :
     is_code(c)}

\* list(codes)[:10]: the first ten in the set's order, which is any order
first_ten(codes) ==
  {S \in SUBSET codes : Cardinality(S) = Min(10, Cardinality(codes))}

PxIdle ==
  [pc |-> "idle", order |-> << >>, verifications |-> << >>, urls |-> << >>,
   text |-> << >>, codes |-> {}]

ExtractCodes ==
  /\ px.pc = "text"
  /\ \E S \in first_ten(codes_found(px.text)) : px' = [px EXCEPT !.pc = "out", !.codes = S]
  /\ UNCHANGED <<storeVars, ledgerVars, pollVars, rateVars, dq, ai, rq, cl, nf, elapsed, pool,
                 last_op>>

ParseMessage ==
  /\ px.pc = "in"
  /\ px' = [px EXCEPT !.pc = "out", !.urls = parse_urls(px.order, px.verifications)]
  /\ UNCHANGED <<storeVars, ledgerVars, pollVars, rateVars, dq, ai, rq, cl, nf, elapsed, pool,
                 last_op>>

\* No operation is run on its own.
MoreIdle ==
  nf = {} /\ elapsed = 0 /\ pool = << >> /\ last_op = NoOp /\ px = PxIdle /\ dq = DqIdle
ExtIdle == ai = AiIdle /\ rq = RqIdle /\ cl = ClIdle /\ MoreIdle

vars == <<storeVars, ledgerVars, pollVars, rateVars, extVars>>

InitLedger ==
  /\ now = 0 /\ sessions = {} /\ messages_seen = {}
  /\ InitLedgerCallers
  /\ PollerIdle /\ cycle0 = 0
  /\ RateIdle /\ mono = 0 /\ rkey = Key("u1", "general") /\ rbudget = 0
  /\ ExtIdle

NextLedger ==
  \/ \E c \in Callers, id \in LedgerIds : CallClaim(c, id)
  \/ \E c \in Callers, id \in LedgerIds : CallUnclaim(c, id)
  \/ \E c \in Callers : ExecClaim(c)
  \/ \E c \in Callers : ExecUnclaim(c)

SpecLedger == InitLedger /\ [][NextLedger]_vars

\* The poller: every user may or may not hold a session, created at time 0.
InitPoller ==
  /\ now = 0
  /\ sessions \in {{SessionRow(u, 0) : u \in S} : S \in SUBSET Users}
  /\ messages_seen = {}
  /\ InitLedgerCallers
  /\ PollerIdle
  /\ RateIdle /\ mono = 0 /\ rkey = Key("u1", "general") /\ rbudget = 0
  /\ ExtIdle

NextPoller ==
  \/ SchedLoad
  \/ SchedCleanup
  \/ SchedIdleCycle
  \/ SchedSubmit
  \/ \E u \in Users : SchedCollect(u)
  \/ SchedCycleEnd
  \/ SchedWake
  \/ \E u \in Users : TaskStart(u)
  \/ \E u \in Users : TaskList(u)
  \/ \E u \in Users : TaskClaim(u)
  \/ \E u \in Users : TaskDetail(u)
  \/ \E u \in Users : TaskParse(u)
  \/ \E u \in Users : TaskEnqueue(u)
  \/ SenderGet
  \/ SenderSend

SpecPoller == InitPoller /\ [][NextPoller]_vars

\* The poller together with the user's manual refreshes. The run starts two
\* cycles before a cleanup cycle.
Init == InitPoller /\ cycle0 = CLEANUP_EVERY_N_CYCLES - 2

NextRefresh ==
  \/ \E u \in Users : RefreshStart(u)
  \/ RefreshList
  \/ RefreshCheck
  \/ RefreshDeliver
  \/ RefreshMark

Next == NextPoller \/ NextRefresh

Spec == Init /\ [][Next]_vars

\* The rate limiter on its own: every run is about one key, and starts with
\* an empty bucket map on a clock that has or has not reached the first sweep.
InitRateIdle ==
  /\ now = 0 /\ sessions = {} /\ messages_seen = {}
  /\ InitLedgerCallers
  /\ PollerIdle /\ cycle0 = 0
  /\ RateIdle
  /\ ExtIdle
  /\ mono \in {0, CLEANUP_INTERVAL}
  /\ rkey \in {Key("u1", a) : a \in RateActions}

RateNext(t) == RateCall(t) \/ RateAcquire(t) \/ RateDecide(t)

\* one thread: the calls follow one another, up to a few past the limit
InitRateSeq == InitRateIdle /\ rbudget = RateLimit + MaxExtraCalls
NextRateSeq == RateNext(1) \/ RateTick
SpecRateSeq == InitRateSeq /\ [][NextRateSeq]_vars

\* several threads
InitRate == InitRateIdle /\ rbudget = MaxCalls
NextRate == (\E t \in RThreads : RateNext(t)) \/ RateTick
SpecRate == InitRate /\ [][NextRate]_vars

\* one thread serving two users: the run's user calls once, the second user
\* goes on calling, and quiet stretches let the sweep fall due
InitRateSweep == InitRateIdle /\ rbudget = 1
NextRateSweep == RateNext(1) \/ RateCallOther(1) \/ RateTick \/ RateQuiet
SpecRateSweep == InitRateSweep /\ [][NextRateSweep]_vars

\* Everything idle but the operation under study.
InitQuiet ==
  /\ now = 0 /\ sessions = {} /\ messages_seen = {}
  /\ InitLedgerCallers
  /\ PollerIdle /\ cycle0 = 0
  /\ RateIdle /\ mono = 0 /\ rkey = Key("u1", "general") /\ rbudget = 0

\* the end of one cycle, for every base and every number of active sessions
InitInterval ==
  /\ InitQuiet
  /\ ai \in [base : Bases, n : Counts, pc : {"cycle"}]
  /\ rq = RqIdle /\ cl = ClIdle /\ MoreIdle
NextInterval == CycleEndSleep
SpecInterval == InitInterval /\ [][NextInterval]_vars

\* one call of get_messages or get_message_detail
InitClient == InitQuiet /\ ExtIdle
NextClient ==
  \/ \E fn \in ListingOps : ClientCall(fn)
  \/ RetryRequest
  \/ RetrySleep
  \/ ClientFinish
SpecClient == InitClient /\ [][NextClient]_vars

\* One call of parse_message: the links of the body in any order of the set,
\* and up to MaxVerifications verification values.
OrdersOf(S) ==
  {q \in UNION {[1..n -> S] : n \in 0..Cardinality(S)} :
     \A i, j \in 1..Len(q) : q[i] = q[j] => i = j}
InitParse ==
  /\ InitQuiet
  /\ ai = AiIdle /\ rq = RqIdle /\ cl = ClIdle
  /\ nf = {} /\ elapsed = 0 /\ pool = << >> /\ last_op = NoOp /\ dq = DqIdle
  /\ px \in [pc : {"in"}, order : OrdersOf(BodyUrls),
              verifications : UNION {[1..n -> VerificationValues] : n \in 0..MaxVerifications},
              urls : {<< >>}, text : {<< >>}, codes : {{}}]
NextParse == ParseMessage
SpecParse == InitParse /\ [][NextParse]_vars

\* One call of extract_codes, on a text of up to MaxTokens words, or on a
\* text of up to MaxCodes different four-digit codes.
CodeWord(n) == <<"9", "0", CHOOSE d \in Digits : d = ToString(n \div 10),
                 CHOOSE d \in Digits : d = ToString(n % 10)>>
Texts ==
  UNION {[1..n -> Words] : n \in 0..MaxTokens}
    \cup {[i \in 1..n |-> CodeWord(i)] : n \in 0..MaxCodes}
InitCodes ==
  /\ InitQuiet
  /\ ai = AiIdle /\ rq = RqIdle /\ cl = ClIdle
  /\ nf = {} /\ elapsed = 0 /\ pool = << >> /\ last_op = NoOp /\ dq = DqIdle
  /\ px \in [pc : {"text"}, order : {<< >>}, verifications : {<< >>}, urls : {<< >>},
              text : Texts, codes : {{}}]
NextCodes == ExtractCodes
SpecCodes == InitCodes /\ [][NextCodes]_vars

\* The handlers that create and delete sessions, on an empty store.
InitStore == InitQuiet /\ ExtIdle
NextStore ==
  \/ \E u \in Users, a \in Accounts : SaveSession(u, a)
  \/ \E u \in Users : DeleteSession(u)
  \/ TimePasses
SpecStore == InitStore /\ [][NextStore]_vars

\* One cycle's pool. The store holds n sessions whose age is exactly
\* SESSION_MAX_AGE_SECONDS (numbered 1..n) and one older session (number 0).
PoolSessions == 1..MaxSessions
InitPool ==
  /\ now = SESSION_MAX_AGE_SECONDS + 1
  /\ \E n \in PoolSessions :
       sessions = {SessionRow(0, 0)} \cup {SessionRow(u, 1) : u \in 1..n}
  /\ messages_seen = {}
  /\ InitLedgerCallers
  /\ PollerIdle /\ cycle0 = 0
  /\ RateIdle /\ mono = 0 /\ rkey = Key("u1", "general") /\ rbudget = 0
  /\ ExtIdle
NextPool ==
  \/ PoolSubmit
  \/ \E u \in PoolSessions : PoolStart(u)
  \/ \E u \in PoolSessions : PoolFinish(u)
SpecPool == InitPool /\ [][NextPool]_vars

\* One account creation. Every step of it is taken in the end: the thread
\* that runs the handler is not starved, a request ends (timeout=15), a sleep
\* ends.
InitCreate == InitQuiet /\ ExtIdle
NextCreate ==
  \/ CreateStart
  \/ RetryRequest
  \/ RetrySleep
  \/ CreateDomains
  \/ CreateAccounts
  \/ CreateToken
SpecCreate == InitCreate /\ [][NextCreate]_vars
FairSpecCreate == SpecCreate /\ WF_vars(NextCreate)

\* ------------------------------------------------------ claims on the ledger
TrueClaims(h) == Cardinality({i \in 1..Len(h) : h[i].op = "claim" /\ h[i].ret})
OnlyClaims(h) == \A i \in 1..Len(h) : h[i].op = "claim"

\* C1: of the claim(id) calls made on an id that is not in the ledger (no
\* unclaim among them), however they interleave, exactly one returns true and
\* every other one returns false.
C1_ExactlyOneClaim ==
  \A id \in LedgerIds :
    (OnlyClaims(hist[id]) /\ Len(hist[id]) > 0) =>
      /\ TrueClaims(hist[id]) = 1
      /\ Cardinality({c \in Callers : call[c].pc = "done" /\ call[c].op = "claim"
                                        /\ call[c].id = id /\ call[c].ret}) <= 1

\* C1 witness: all N callers issued claim(id) before any statement on id had
\* executed (N mutually concurrent calls), and all N have returned.
C1_Witness ==
  \E id \in LedgerIds :
    /\ \A c \in Callers : call[c] = [pc |-> "done", op |-> "claim", id |-> id,
                                      at |-> 0, ret |-> call[c].ret]
    /\ Len(hist[id]) = NCallers
    /\ OnlyClaims(hist[id])
    /\ Cardinality({c \in Callers : call[c].ret}) = 1

\* C3: whenever the statements executed on an id are, consecutively, a claim,
\* an unclaim and a claim, the second claim returns true.
C3_ReclaimAfterRelease ==
  \A id \in LedgerIds : \A i \in 1..Len(hist[id]) :
    (i + 2 <= Len(hist[id]) /\ hist[id][i].op = "claim"
       /\ hist[id][i + 1].op = "unclaim" /\ hist[id][i + 2].op = "claim")
      => hist[id][i + 2].ret

\* C3 witness: a successful claim, its unclaim, and a second claim of the
\* same id have executed in that order.
C3_Witness ==
  \E id \in LedgerIds :
    /\ Len(hist[id]) >= 3
    /\ hist[id][1] = [op |-> "claim", ret |-> TRUE]
    /\ hist[id][2].op = "unclaim"
    /\ hist[id][3].op = "claim"
    /\ id \in SeenIds(messages_seen)

\* The steps of the scheduling thread, and those of the pool task of user u.
SchedNext ==
  \/ SchedLoad \/ SchedCleanup \/ SchedIdleCycle \/ SchedSubmit
  \/ (\E u \in Users : SchedCollect(u)) \/ SchedCycleEnd \/ SchedWake
TaskNext(u) ==
  TaskStart(u) \/ TaskList(u) \/ TaskClaim(u) \/ TaskDetail(u) \/ TaskParse(u)
    \/ TaskEnqueue(u)

\* The scheduling thread and its pool alone. The sender thread only consumes
\* msg_queue and writes sending, notified and failures, none of which a step
\* of the scheduler or of a task reads: what holds of a cycle here holds of
\* it under SpecPoller. Both kinds of thread keep running: they are scheduled
\* by the OS and every blocking call of theirs is bounded by a timeout, hence
\* the weak fairness of FairSpecCycle.
NextCycle == SchedNext \/ \E u \in Users : TaskNext(u)
SpecCycle == InitPoller /\ [][NextCycle]_vars

\* The scheduling thread and its tasks, with the details that the provider
\* reports missing observed.
NextNotFound == NextCycle \/ \E u \in Users : TaskDetailNotFound(u)
SpecNotFound == InitPoller /\ [][NextNotFound]_vars

\* The scheduling thread and its tasks with the wall clock moving during a
\* cycle. The sessions were created at time 0 and the run starts when their
\* age is about SESSION_MAX_AGE_SECONDS.
StartAges == {0, SESSION_MAX_AGE_SECONDS - 1, SESSION_MAX_AGE_SECONDS,
              SESSION_MAX_AGE_SECONDS + 1}
InitExpiry ==
  /\ now \in StartAges
  /\ sessions \in {{SessionRow(u, 0) : u \in S} : S \in SUBSET Users}
  /\ messages_seen = {}
  /\ InitLedgerCallers
  /\ PollerIdle
  /\ RateIdle /\ mono = 0 /\ rkey = Key("u1", "general") /\ rbudget = 0
  /\ ExtIdle
NextExpiry == NextCycle \/ ClockTick
SpecExpiry == InitExpiry /\ [][NextExpiry]_vars

\* The scheduling thread and its tasks around a cleanup cycle, in a process
\* that has run for more than the retention window. u2's session is a second
\* older than u1's; two ids of earlier mailboxes were claimed a second apart.
\* The run starts in the ninth cycle, so that the cleanup of the tenth finds
\* u1's session a second younger than SESSION_MAX_AGE_SECONDS, at it, or a
\* second older, and the later seen record likewise about the retention window.
CleanupEpoch == timedelta_days(RETENTION_DAYS)
OldSeen == {SeenRow("old1", SESSION_MAX_AGE_SECONDS - 1),
            SeenRow("old2", SESSION_MAX_AGE_SECONDS)}
InitCleanup ==
  /\ now \in {CleanupEpoch + SESSION_MAX_AGE_SECONDS - POLL_INTERVAL + d : d \in {-1, 0, 1}}
  /\ sessions \in {{SessionRow("u2", CleanupEpoch - 1)} \cup x :
                     x \in {{}, {SessionRow("u1", CleanupEpoch)}}}
  /\ messages_seen = OldSeen
  /\ InitLedgerCallers
  /\ PollerIdle /\ cycle0 = CLEANUP_EVERY_N_CYCLES - 2
  /\ RateIdle /\ mono = 0 /\ rkey = Key("u1", "general") /\ rbudget = 0
  /\ ExtIdle
SpecCleanup == InitCleanup /\ [][NextCycle]_vars

\* The dispatch queue with its producers and its consumer. The consumer's
\* thread is a daemon thread that is scheduled like any other: its get has a
\* timeout of 2 s, its POST one of 10 s, its sleep lasts 0.3 s, hence the
\* weak fairness of its steps.
InitSender == InitQuiet /\ ExtIdle
NextSender ==
  \/ \E id \in MsgIds : OnNewMessage(Owner(id), id)
  \/ SenderGetLogged
  \/ SenderSendLogged
SpecSender == InitSender /\ [][NextSender]_vars
FairSpecSender == SpecSender /\ WF_vars(SenderGetLogged) /\ WF_vars(SenderSendLogged)

FairSpecCycle ==
  /\ SpecCycle
  /\ WF_vars(SchedNext)
  /\ \A u \in Users : WF_vars(TaskNext(u))

\* ------------------------------------------------------ claims on the poller
Range(q) == {q[i] : i \in 1..Len(q)}

\* C2: under every interleaving of the poller's tasks with manual refreshes,
\* the user gets at most one notification for a message id, as long as no
\* processing step for that id failed.
C2_AtMostOneNotification ==
  \A id \in MsgIds : failures[id] = 0 => notified[id] <= 1

\* the cycle that dispatched u's task is still on (it is collecting results,
\* or at its sleep)
InCycle(u) == u \in active /\ schedPc \in {"collect", "sleep"}

\* C4: in a cycle, a task that lists the mailbox and meets no failure forwards
\* exactly one payload for each id that was unseen when it listed, and leaves
\* all of them in the ledger; the task of the next cycle, after such a task,
\* forwards none.
C4_EndToEnd ==
  \A u \in Users :
    (InCycle(u) /\ Clean(task[u])) =>
      /\ Range(task[u].fwd) = task[u].unseen0
      /\ Len(task[u].fwd) = Cardinality(task[u].unseen0)
      /\ task[u].unseen0 \subseteq SeenIds(messages_seen)
      /\ task[u].prev.clean => task[u].fwd = << >>

\* C4 witness: one active session; its first task forwarded two payloads, its
\* second task has ended clean, and both ids are in the ledger.
C4_Witness ==
  /\ active = {"u1"} /\ schedPc = "sleep"
  /\ Clean(task["u1"])
  /\ task["u1"].prev.clean /\ Len(task["u1"].prev.fwd) = 2
  /\ task["u1"].fwd = << >>
  /\ {"m1", "m2"} \subseteq SeenIds(messages_seen)

C6_DeliveryFailureUnclaims ==
  sending.state = "failed" => sending.id \notin SeenIds(messages_seen)

\* C7: when a session's task has failed in a cycle, the cycle still reaches
\* its sleep, with every task of the cycle finished and its result taken, and
\* the interval is the adaptive one.
C7_FailureIsolated ==
  \A u \in Users :
    (schedPc = "collect" /\ Failed(task[u]))
      ~> (/\ schedPc = "sleep"
          /\ \A v \in active : task[v].pc = "collected"
          /\ interval = adaptive_interval(Cardinality(active)))

\* C7 witness: the cycle is at its sleep; one task ended by an exception,
\* another listed its mailbox and forwarded a payload.
C7_Witness ==
  /\ schedPc = "sleep"
  /\ \E u \in active, v \in active :
       /\ u # v
       /\ task[u].pc = "collected" /\ task[u].exc
       /\ task[v].pc = "collected" /\ task[v].listed /\ task[v].fwd # << >>

\* C8: the scheduling loop never ends: no failure in a cycle keeps the
\* following cycles from running.
C8_LoopNeverEnds == schedPc # "dead"

\* u's stored session is past its maximum age
ExpiredStored(u) ==
  \E r \in sessions : r.user_id = u /\ is_expired(r.created_at, now)

\* the next cleanup cycle is one of the cycles of this run
CleanupAhead ==
  LET this == schedPc = "loaded" /\ cycle % CLEANUP_EVERY_N_CYCLES = 0
      due == IF this THEN cycle
             ELSE (cycle \div CLEANUP_EVERY_N_CYCLES + 1) * CLEANUP_EVERY_N_CYCLES
  IN due <= cycle0 + MaxCycles

\* after the partition the worker goes through the cleanup exactly when the
\* cycle number is a multiple of N, with or without active sessions
CleanupOnMultiples ==
  (schedPc = "loaded" /\ schedPc' # "loaded")
    => (schedPc' \in {"cleaned", "dead"} <=> cycle % CLEANUP_EVERY_N_CYCLES = 0)

\* C26: the cleanup runs in exactly the cycles whose number is a multiple of
\* N, whether or not the cycle has an active session, and every stored
\* session that has expired is deleted by the next such cycle.
C26_ExpiredDeletedByNthCycle ==
  /\ [][CleanupOnMultiples]_vars
  /\ \A u \in Users :
       (ExpiredStored(u) /\ CleanupAhead) ~> (\A r \in sessions : r.user_id # u)

\* the worker runs the cleanup calls of lines 68-69
CleanupStep == schedPc = "loaded" /\ schedPc' \in {"cleaned", "dead"}

\* C27: the cleanup deletes no session that the partition classifies as
\* active and no seen record claimed within the retention window, and leaves
\* every row it does not delete as it was.
C27_CleanupDeletesOnlyPastLimit ==
  [][CleanupStep =>
       /\ sessions' \subseteq sessions
       /\ \A r \in sessions \ sessions' : is_expired(r.created_at, now)
       /\ messages_seen' \subseteq messages_seen
       /\ \A r \in messages_seen \ messages_seen' :
            now - r.seen_at > timedelta_days(RETENTION_DAYS)]_vars

\* C27 witness: a cleanup has run at the instant u1's session is exactly
\* SESSION_MAX_AGE_SECONDS old and the record of old2 exactly RETENTION_DAYS
\* old: both are still stored, u1 is polled in this cycle, and u2's session
\* and the record of old1, each a second older, are gone.
C27_Witness ==
  /\ schedPc = "cleaned"
  /\ now = CleanupEpoch + SESSION_MAX_AGE_SECONDS
  /\ sessions = {SessionRow("u1", CleanupEpoch)}
  /\ active = {"u1"}
  /\ SeenRow("old2", SESSION_MAX_AGE_SECONDS) \in messages_seen
  /\ "old1" \notin SeenIds(messages_seen)

\* C28: a task goes from the claim to the detail fetch, from there to the
\* parse and from there to the enqueue, in that order; an item is put on the
\* queue for user u only by u's task at its enqueue step, for the id it is
\* handling, whose ledger row this task's own claim wrote and which is in the
\* ledger at that moment.
C28_ClaimDetailParseEnqueue ==
  [][\A u \in Users :
       /\ (task'[u].pc = "detail" /\ task[u].pc # "detail") => task[u].pc = "claim"
       /\ (task'[u].pc = "parse" /\ task[u].pc # "parse") => task[u].pc = "detail"
       /\ (task'[u].pc = "enqueue" /\ task[u].pc # "enqueue") => task[u].pc = "parse"
       /\ (/\ Len(msg_queue') = Len(msg_queue) + 1
           /\ msg_queue'[Len(msg_queue')].user_id = u)
            => /\ task[u].pc = "enqueue"
               /\ msg_queue'[Len(msg_queue')].id = CurMsg(u)
               /\ CurMsg(u) \in task[u].own
               /\ CurMsg(u) \in SeenIds(messages_seen)]_vars

\* C28 witness: u1's task has claimed, fetched, parsed and enqueued both
\* messages of the mailbox; both rows are its own and in the ledger.
C28_Witness ==
  /\ task["u1"].pc = "returned"
  /\ task["u1"].fwd = <<"m1", "m2">>
  /\ task["u1"].own = {"m1", "m2"}
  /\ {"m1", "m2"} \subseteq SeenIds(messages_seen)

\* C29: outside the cleanup, a row leaves the ledger only by the step of a
\* task that is past its claim of that id: the row was written by this
\* task's own claim, the id was not enqueued by it, nothing is enqueued in
\* the step, and no other row is removed.
C29_UnclaimOnlyOwnUnsent ==
  [][\A id \in SeenIds(messages_seen) \ SeenIds(messages_seen') :
       \/ CleanupStep
       \/ \E u \in Users :
            /\ task'[u] # task[u]
            /\ task[u].pc \in {"detail", "parse", "enqueue"}
            /\ CurMsg(u) = id
            /\ id \in task[u].own
            /\ \A v \in Users \ {u} : id \notin task[v].own
            /\ id \notin Range(task[u].fwd)
            /\ msg_queue' = msg_queue]_vars

\* C29 witness: u1's task enqueued m1 and then failed on m2 after claiming
\* it: m1 is still in the ledger, m2 was unclaimed.
C29_Witness ==
  /\ task["u1"].fwd = <<"m1">>
  /\ task["u1"].lost = {"m2"}
  /\ task["u1"].own = {"m1", "m2"}
  /\ "m1" \in SeenIds(messages_seen)
  /\ "m2" \notin SeenIds(messages_seen)

\* C30: the cycle's sleep, and every step of the scheduling thread up to the
\* next submission, is taken with no task of the cycle waiting or running;
\* while the pool works there is one task for each active session and none
\* for any other.
C30_CycleWaitsForTasks ==
  /\ schedPc \in {"sleep", "load", "loaded", "cleaned", "dead"}
       => \A u \in Users : task[u].pc \in {"none", "collected"}
  /\ schedPc = "collect" => \A u \in Users : task[u].pc # "none" <=> u \in active

\* C30 witness: the second cycle of the run is at its sleep; both sessions
\* had a task in each of the two cycles, and all of them have finished.
C30_Witness ==
  /\ schedPc = "sleep"
  /\ cycle = cycle0 + 2
  /\ active = Users
  /\ \A u \in Users : task[u].pc = "collected" /\ task[u].listed /\ task[u].prev.clean

\* the items put are the items the consumer got, in that order, followed by
\* the items still queued; the deliveries attempted are one for each item got,
\* in that order, the last one outstanding while the item is being sent
TakenOnceInOrder ==
  /\ dq.put = dq.got \o msg_queue
  /\ Len(dq.tried) = Len(dq.got) - (IF sending.state = "taken" THEN 1 ELSE 0)
  /\ \A i \in 1..Len(dq.tried) :
       Item(dq.tried[i].user_id, dq.tried[i].id) = dq.got[i]

\* C31: every item put on the queue is taken by the consumer exactly once, in
\* the order of the puts, and one delivery is attempted for it in the end,
\* whether or not the deliveries before it failed.
C31_QueueDrainedInOrder ==
  /\ []TakenOnceInOrder
  /\ \A n \in 1..MaxPuts : (Len(dq.put) >= n) ~> (Len(dq.tried) >= n)

\* C31 witness: three items of two users were put; the delivery of the first
\* failed, and the second and the third were delivered after it, in order.
C31_Witness ==
  /\ dq.put = <<Item("u1", "m1"), Item("u2", "m3"), Item("u1", "m2")>>
  /\ Len(dq.tried) = 3
  /\ ~dq.tried[1].ok /\ dq.tried[2].ok /\ dq.tried[3].ok
  /\ dq.tried[3].id = "m2"
  /\ msg_queue = << >>

\* u's session is stored and not expired
StoredActive(u) ==
  \E r \in sessions : r.user_id = u /\ ~is_expired(r.created_at, now)

\* in the cycle after the first one of the run, a provider call of u's task
\* failed again (the list fetch, or the detail fetch or parse of id), or the
\* task was ended by an exception
HinderedAgain(u, id) ==
  /\ cycle = cycle0 + 2 /\ InCycle(u)
  /\ \/ task[u].exc
     \/ Finished(u) /\ ~task[u].listed
     \/ id \in task[u].lost

\* C32: an id that a task claimed and released after a failed detail fetch,
\* parse or enqueue, in the mailbox of a session that stays active, is put
\* on the queue by a later cycle unless a call for it fails again.
C32_ReleasedIdIsEnqueuedLater ==
  \A u \in Users : \A id \in MsgIds :
    (cycle = cycle0 + 1 /\ id \in task[u].lost /\ StoredActive(u))
      ~> \/ cycle = cycle0 + 2 /\ InCycle(u) /\ id \in Range(task[u].fwd)
         \/ HinderedAgain(u, id)
         \/ ~StoredActive(u)

\* no record that the cleanup purges is that of a message in the mailbox of
\* a session that is stored and active at that moment
PurgedNotListable ==
  CleanupStep =>
    \A r \in messages_seen \ messages_seen' : ~StoredActive(Owner(r.message_id))

\* C33: the cleanup purges no seen record of a message that an active
\* session can still list, and no message is notified twice.
C33_CleanupReopensNothing ==
  /\ [][PurgedNotListable]_vars
  /\ [](\A id \in MsgIds : notified[id] <= 1)

\* C33 witness: m1 was claimed and delivered without any failure, and more
\* than the retention window later a cleanup has purged its record.
C33_Witness ==
  /\ schedPc = "cleaned"
  /\ notified["m1"] = 1 /\ failures["m1"] = 0
  /\ "m1" \notin SeenIds(messages_seen)
  /\ now > timedelta_days(RETENTION_DAYS)

\* C34: a task that listed the mailbox and was not ended by an exception
\* has gone through the whole list whatever failed on the way: every id that
\* was unseen when it listed was enqueued or was released after a failure,
\* and the ids it enqueued are in the ledger.
C34_FailureSkipsOneMessage ==
  \A u \in Users :
    (InCycle(u) /\ Finished(u) /\ task[u].listed /\ ~task[u].exc) =>
      /\ task[u].unseen0 = Range(task[u].fwd) \cup task[u].lost
      /\ Range(task[u].fwd) \cap task[u].lost = {}
      /\ Range(task[u].fwd) \subseteq SeenIds(messages_seen)

\* C34 witness: the processing of m1 failed after u1's task claimed it, and
\* the task went on to claim and enqueue m2.
C34_Witness ==
  /\ InCycle("u1") /\ Finished("u1")
  /\ task["u1"].lost = {"m1"}
  /\ task["u1"].fwd = <<"m2">>
  /\ "m2" \in SeenIds(messages_seen)
  /\ "m1" \notin SeenIds(messages_seen)

\* ------------------------------------------------ claims on the rate limiter
\* C9: starting from an empty bucket, with limit L and window W, the first L
\* calls made within W of the first one return true, every further call made
\* within W of the first one returns false, and the first call made once W
\* has elapsed since the first call returns true.
C9_SlidingWindow ==
  LET W == RateWindow
      L == RateLimit
      n == Len(rlog)
      within == {i \in 1..n : rlog[i].t - rlog[1].t < W}
  IN \A i \in 1..n :
       /\ i \in within => (rlog[i].ret <=> i <= L)
       /\ (i \notin within /\ 1..(i - 1) \subseteq within) => rlog[i].ret

\* C9 witness: L calls returned true, the call after them false, and then a
\* call made exactly W after the first call returned true.
C9_Witness ==
  /\ Len(rlog) = RateLimit + 2
  /\ \A i \in 1..RateLimit : rlog[i].ret /\ rlog[i].t - rlog[1].t < RateWindow
  /\ ~rlog[RateLimit + 1].ret
  /\ rlog[RateLimit + 1].t - rlog[1].t < RateWindow
  /\ rlog[RateLimit + 2].ret
  /\ rlog[RateLimit + 2].t - rlog[1].t = RateWindow

\* the calls that returned true with a timestamp in the window (hi - W, hi]
AcceptedIn(hi) ==
  {i \in 1..Len(rlog) : rlog[i].ret /\ rlog[i].t > hi - RateWindow /\ rlog[i].t <= hi}

\* C10: with concurrent callers on one key, the calls that return true with
\* timestamps inside one window of length W are never more than the limit L.
C10_LimitUnderConcurrency ==
  \A i \in 1..Len(rlog) :
    rlog[i].ret => Cardinality(AcceptedIn(rlog[i].t)) <= RateLimit

\* every timestamp of the list is outside the window that ends at clock
AgedOut(ts, clock) == \A i \in 1..Len(ts) : ~Stays(ts[i], clock - RateWindow)
KeysInCall == {thr[t].key : t \in {x \in RThreads : thr[x].pc # "idle"}}

\* C11: a sweep removes from the bucket map every key whose timestamps have
\* all aged out of the window and that no call in progress is made with.
C11_SweepRemovesAgedOut ==
  [][last_cleanup' # last_cleanup =>
       \A k \in DOMAIN buckets :
         (AgedOut(buckets[k], mono) /\ k \notin KeysInCall') => k \notin DOMAIN buckets']_vars

\* ------------------------------------------------ claims on the cycle's end
Max(a, b) == IF a >= b THEN a ELSE b

\* C12: with n active sessions and base interval b, the cycle sleeps b when
\* n < 100, max(b, 45) when 100 <= n < 300, and 60 when n >= 300.
C12_AdaptiveInterval ==
  ai.pc = "sleep" =>
    /\ ai.n < 100 => interval = ai.base
    /\ (100 <= ai.n /\ ai.n < 300) => interval = Max(ai.base, 45)
    /\ ai.n >= 300 => interval = 60

\* C12 witness: 150 active sessions under a base above 45 slept the base.
C12_Witness == ai = [base |-> 60, n |-> 150, pc |-> "sleep"] /\ interval = 60

\* C25: for every base, the interval slept with n active sessions is at least
\* the interval of every smaller number of active sessions.
C25_IntervalNeverDecreases ==
  ai.pc = "sleep" =>
    \A m \in Counts : m <= ai.n => adaptive_interval_of(ai.base, m) <= interval

\* --------------------------------------------- claims on the provider client
IsRequest(e, outs) == e.ev = "request" /\ e.out \in outs
\* the log is k failed requests, each followed by its delay of the schedule
FailedThenSlept(log, k) ==
  \A i \in 1..k : IsRequest(log[2 * i - 1], Transient) /\ log[2 * i] = SleepEvent(RETRY_BACKOFF[i])

\* C13: a call that fails transiently k < RETRY_ATTEMPTS times and then
\* succeeds returns the response after exactly k + 1 requests, having slept
\* the first k delays of RETRY_BACKOFF in order; when all RETRY_ATTEMPTS
\* requests fail it raises after exactly that many requests, with the delays
\* between them and none after the last.
C13_BackoffRetry ==
  /\ (rq.pc = "returned" /\ rq.resp = "2xx") =>
       \E k \in 0..(RETRY_ATTEMPTS - 1) :
         /\ Len(rq.log) = 2 * k + 1
         /\ FailedThenSlept(rq.log, k)
         /\ rq.log[2 * k + 1] = ReqEvent("2xx")
  /\ rq.pc = "raised" =>
       /\ Len(rq.log) = 2 * RETRY_ATTEMPTS - 1
       /\ FailedThenSlept(rq.log, RETRY_ATTEMPTS - 1)
       /\ IsRequest(rq.log[2 * RETRY_ATTEMPTS - 1], Transient)
  /\ (cl.pc = "done" /\ cl.fn \in ListingOps) =>
       /\ rq.resp = "2xx" => cl.result = "value"
       /\ rq.pc = "raised" => cl.result = "raised"

\* C13 witness: a 5xx, a sleep of 1 s, a timeout, a sleep of 2 s and then a
\* success, which get_messages returned.
C13_Witness ==
  /\ cl = [fn |-> "get_messages", pc |-> "done", result |-> "value", conflicts |-> 0]
  /\ rq.log = <<ReqEvent("5xx"), SleepEvent(1), ReqEvent("timeout"), SleepEvent(2),
                ReqEvent("2xx")>>

\* C14: when the first response is a 4xx, that request is the only one, no
\* backoff sleep is made, and the operation ends at once with an error (with
\* the empty result, for a 404 on a message detail).
C14_PermanentFailsAtOnce ==
  (rq.log # << >> /\ IsRequest(rq.log[1], {"4xx", "404", "422"})) =>
    /\ rq.log = <<ReqEvent(rq.log[1].out)>>
    /\ rq.pc = "returned"
    /\ cl.pc = "done" =>
         cl.result = IF cl.fn = "get_message_detail" /\ rq.resp = "404"
                     THEN "none" ELSE "raised_http"

\* C14 witness: get_messages got a 4xx and raised after that one request.
C14_Witness ==
  /\ cl = [fn |-> "get_messages", pc |-> "done", result |-> "raised_http", conflicts |-> 0]
  /\ rq.log = <<ReqEvent("4xx")>>

\* C15: an account creation that was started ends, whatever the provider
\* answers, sustained address conflicts included.
C15_CreationTerminates == (cl.fn = "create_account") ~> (cl.pc = "done")

\* no row of the ledger is old enough for cleanup_old_messages to delete it
NothingPurged == now <= timedelta_days(RETENTION_DAYS)

\* C16: an id whose detail the provider reported missing, and whose
\* processing did not fail at another step, stays in the ledger (the 404 is
\* followed by no unclaim), and no task is looking up its detail again.
C16_NotFoundStaysSeen ==
  \A id \in nf :
    (failures[id] = 0 /\ NothingPurged) =>
      /\ id \in SeenIds(messages_seen)
      /\ \A u \in Users : ~(task[u].pc = "detail" /\ CurMsg(u) = id)

\* C16 witness: m1's detail was missing in the first cycle; the second
\* cycle's task of the same user has listed the mailbox again, passed m1 by
\* and is at m2.
C16_Witness ==
  /\ "m1" \in nf /\ failures["m1"] = 0
  /\ cycle = cycle0 + 2
  /\ task["u1"].pc \in {"claim", "detail"} /\ task["u1"].idx = 2

\* C17: the Sender gives a notification up only after a second delivery
\* request for it (the plain-text one) has been made.
C17_RetryBeforeGivingUp == sending.state = "failed" => sending.posts >= 2

\* the step submits the cycle's tasks: one for every stored session that is
\* not expired at that time, none for the others
DispatchedIffActive ==
  (schedPc # "collect" /\ schedPc' = "collect") =>
    \A r \in sessions :
      task'[r.user_id].pc = "queued" <=> now - r.created_at <= SESSION_MAX_AGE_SECONDS
\* the step is a call of the provider (get_messages or get_message_detail)
\* by u's task
ProviderCall(u) ==
  \/ task[u].pc = "list" /\ task'[u].pc # "list"
  \/ task[u].pc = "detail" /\ task'[u].pc # "detail"

\* C18: a cycle submits a task exactly for the sessions whose age is at most
\* SESSION_MAX_AGE_SECONDS at partition time, and every provider call of a
\* task is made while the session of its token is not expired.
C18_OnlyActivePolled ==
  [][/\ DispatchedIffActive
     /\ \A r \in sessions :
          ProviderCall(r.user_id) => ~is_expired(r.created_at, now)]_vars

RowsOf(u) == {r \in sessions : r.user_id = u}

\* C19: the store never holds two sessions of one user_id, and after a
\* session was created for a user, who had one before or not, the user's
\* row is the new one: the new address, token, account id and created_at.
C19_OneSessionPerUser ==
  /\ \A u \in Users : Cardinality(RowsOf(u)) <= 1
  /\ last_op.op = "save" =>
       RowsOf(last_op.user_id) =
         {FullRow(last_op.user_id, last_op.email, last_op.token, last_op.account_id,
                  last_op.at)}
  /\ last_op.op = "delete" => RowsOf(last_op.user_id) = {}

\* C19 witness: u1, who already held a session, has created another at time
\* 1, for the account b@d, and holds only that one.
C19_Witness ==
  /\ last_op = [op |-> "save", user_id |-> "u1", email |-> "b@d", token |-> "tok_b",
                account_id |-> "id_b", at |-> 1, had |-> TRUE]
  /\ RowsOf("u1") = {FullRow("u1", "b@d", "tok_b", "id_b", 1)}
  /\ elapsed = 1

\* C20: in a cycle with an active session the submitted tasks are those of
\* the active sessions, one each, and the tasks running at any moment are at
\* most min(MAX_CONCURRENT_POLLS, number of active sessions).
C20_PoolBound ==
  schedPc = "collect" =>
    /\ DOMAIN pool = {r.user_id : r \in {x \in sessions :
                                          now - x.created_at <= SESSION_MAX_AGE_SECONDS}}
    /\ Cardinality(PoolRunning)
         <= Min(MAX_CONCURRENT_POLLS, Cardinality(DOMAIN pool))

\* C20 witness: more active sessions than MAX_CONCURRENT_POLLS; as many
\* tasks run as the pool has threads and another one waits.
C20_Witness ==
  /\ Cardinality(DOMAIN pool) > MAX_CONCURRENT_POLLS
  /\ Cardinality(PoolRunning) = MAX_CONCURRENT_POLLS
  /\ \E u \in DOMAIN pool : pool[u] = "queued"

\* C23: the list kept for any (user, action) key never holds more
\* timestamps than the action's limit.
C23_BucketWithinLimit ==
  \A k \in DOMAIN buckets : Len(buckets[k]) <= LIMITS(k[2]).max_count

\* C23 witness: the key's list is full and a call made with it was denied.
C23_Witness ==
  /\ Len(Bucket(buckets, rkey)) = RateLimit
  /\ rlog # << >> /\ ~rlog[Len(rlog)].ret
  /\ \E t \in RThreads : thr[t].pc = "locked"

\* the timestamps of the calls of rlog that returned true after the cutoff
AcceptedAfter(cutoff) ==
  LET acc == SelectSeq(rlog, LAMBDA c : c.ret /\ c.t > cutoff)
  IN [i \in 1..Len(acc) |-> acc[i].t]

\* after a call the key's list is the timestamps of the accepted calls inside
\* the window of that call, and the call was allowed when they were fewer than L
OnlyAcceptedRetained ==
  LET n == Len(rlog)
  IN /\ (n > 0 /\ thr[1].pc = "idle") =>
          Bucket(buckets, rkey) = AcceptedAfter(rlog[n].t - RateWindow)
     /\ (n > 0 /\ Len(AcceptedAfter(rlog[n].t - RateWindow)) < RateLimit) => rlog[n].ret

\* C24: a denied call records nothing. After any call the key's list is the
\* timestamps of the accepted calls that are still inside the window, so
\* the latest call was allowed whenever fewer than L accepted calls were
\* inside its window, however many calls were denied before it.
C24_DeniedCallsLeaveNoTrace == []OnlyAcceptedRetained

\* C24 witness: L calls accepted at one time, a call denied one second before
\* the window of the first ends, and the next call accepted when it ends;
\* the list holds that call only.
C24_Witness ==
  /\ Len(rlog) = RateLimit + 2
  /\ ~rlog[RateLimit + 1].ret
  /\ rlog[RateLimit + 1].t = rlog[1].t + RateWindow - 1
  /\ rlog[RateLimit + 2].ret
  /\ rlog[RateLimit + 2].t = rlog[1].t + RateWindow
  /\ Bucket(buckets, rkey) = <<rlog[RateLimit + 2].t>>

\* --------------------------------------------------- claims on the parser
\* C21: the links of the payload are in the order of their priority tiers,
\* and none of them matches the image/tracking heuristics.
C21_LinksRankedAndFiltered ==
  px.pc = "out" =>
    /\ \A i, j \in 1..Len(px.urls) :
         i < j => activation_priority(px.urls[i]) <= activation_priority(px.urls[j])
    /\ \A i \in 1..Len(px.urls) : ~is_image_or_tracking(px.urls[i])

====
